------------------------------ MODULE Spec2Model ------------------------------
(***************************************************************************)
(* A model of sqcli (src/sqcli.py): the interactive SQLite shell.          *)
(*                                                                         *)
(* A Python str is a sequence of one-character strings, so that strip,     *)
(* lower, startswith, split, shlex.split, int() and float() are computed   *)
(* character by character as the interpreter computes them.                *)
(*                                                                         *)
(* The specifications share the variables:                                 *)
(*   Spec         : SQLiteCLI.run, the prompt loop and the dot-commands;   *)
(*   SpecRead     : run() started with a default.sql, _cmd_read stepping   *)
(*                  through the file one line at a time, up to the prompt; *)
(*   SpecParse    : _parse_parameter_value applied to one input string;    *)
(*   SpecEdit     : the prompt's editing buffer under the key bindings,    *)
(*                  and run() on the text the buffer submits;              *)
(*   SpecComplete : SQLiteCompleter.get_completions on one document;       *)
(*   SpecData     : .export, .import, .tables and SQL statements on a      *)
(*                  database and a file system.                            *)
(***************************************************************************)
EXTENDS Integers, Sequences, FiniteSets, TLC

VARIABLES
    running,        \* self.running
    timer_enabled,  \* self.timer_enabled
    mode,           \* self.mode
    parameters,     \* self.parameters: a function from names to values
    conn,           \* self.conn: "open" | "closed"
    pc,             \* where the process is: "read" (in _cmd_read for default.sql),
                    \* "prompt" (in session.prompt), "dispatch" (the prompt has
                    \* returned text), "exited" (run() returned), "fatal" (an
                    \* exception left run()), "parse" | "parsed"
    exit_code,      \* the process's exit code, -1 while it runs
    out,            \* the console messages of the last step, in order
    executed,       \* the units handed to _execute_sql / _handle_dot_command
                    \* while handling the current input (script or prompt text)
    text,           \* run(): text, the stripped text the prompt returned
    last,           \* how the prompt returned last: "none" | "text" |
                    \* "KeyboardInterrupt" | "EOFError"
    lines,          \* _cmd_read: the lines of the file still to be read
    consumed,       \* _cmd_read: the lines of the file already read
    sql_buffer,     \* _cmd_read: sql_buffer
    value_str,      \* _parse_parameter_value: its argument
    value,          \* _parse_parameter_value: its result
    buff,           \* the prompt's buffer: buff.text
    document,       \* get_completions: document, as [text, cursor]
    completions,    \* get_completions: the candidates yielded, in order
    db,             \* the database behind self.conn: a function from the names
                    \* of its tables and views to [kind, cols, rows]
    fs,             \* the files: a function from paths to contents
    listed          \* the console after the last .tables, and the catalog it
                    \* was printed from (a history variable)

vars == <<running, timer_enabled, mode, parameters, conn, pc, exit_code, out, executed,
          text, last, lines, consumed, sql_buffer, value_str, value,
          buff, document, completions, db, fs, listed>>

-----------------------------------------------------------------------------
(* Bounds of the model.                                                    *)

\* The longest script, in lines, that SpecRead reads.
MaxLines == 3
\* The longest string, in characters, that SpecParse draws exhaustively.
MaxValueLen == 3
\* The most lines typed into the prompt's buffer before it is sent.
MaxEditLines == 3
\* The most commands SpecData runs in one session.
MaxCommands == 3

-----------------------------------------------------------------------------
(* Python's str operations.                                                *)

\* The whitespace str.strip() and str.split() remove.
Whitespace == {" ", "\t", "\n"}

UpperCase == <<"A","B","C","D","E","F","G","H","I","J","K","L","M","N","O","P","Q","R","S","T","U","V","W","X","Y","Z">>
LowerCase == <<"a","b","c","d","e","f","g","h","i","j","k","l","m","n","o","p","q","r","s","t","u","v","w","x","y","z">>
Digits == <<"0","1","2","3","4","5","6","7","8","9">>

IsIn(c, seq) == \E i \in 1..Len(seq) : seq[i] = c
IndexOf(c, seq) == CHOOSE i \in 1..Len(seq) : seq[i] = c

LowerChar(c) == IF IsIn(c, UpperCase) THEN LowerCase[IndexOf(c, UpperCase)] ELSE c
UpperChar(c) == IF IsIn(c, LowerCase) THEN UpperCase[IndexOf(c, LowerCase)] ELSE c

\* str.lower(), str.upper()
Lower(s) == [i \in 1..Len(s) |-> LowerChar(s[i])]
Upper(s) == [i \in 1..Len(s) |-> UpperChar(s[i])]

\* str.lstrip(chars), str.rstrip(chars)
RECURSIVE LStripChars(_, _)
LStripChars(s, chars) ==
    IF s # <<>> /\ Head(s) \in chars THEN LStripChars(Tail(s), chars) ELSE s

RECURSIVE RStripChars(_, _)
RStripChars(s, chars) ==
    IF s # <<>> /\ s[Len(s)] \in chars
    THEN RStripChars(SubSeq(s, 1, Len(s) - 1), chars)
    ELSE s

\* str.strip()
Strip(s) == RStripChars(LStripChars(s, Whitespace), Whitespace)

\* str.startswith(p), str.endswith(p)
StartsWith(s, p) == Len(s) >= Len(p) /\ SubSeq(s, 1, Len(p)) = p
EndsWith(s, p) == Len(s) >= Len(p) /\ SubSeq(s, Len(s) - Len(p) + 1, Len(s)) = p

\* sep.join(strs)
RECURSIVE Join(_, _)
Join(strs, sep) ==
    IF strs = <<>> THEN <<>>
    ELSE IF Len(strs) = 1 THEN strs[1]
    ELSE strs[1] \o sep \o Join(Tail(strs), sep)

\* str.split(): the maximal runs of non-whitespace characters.
RECURSIVE SplitFrom(_, _, _)
SplitFrom(s, token, acc) ==
    IF s = <<>> THEN (IF token = <<>> THEN acc ELSE Append(acc, token))
    ELSE IF Head(s) \in Whitespace
         THEN SplitFrom(Tail(s), <<>>, IF token = <<>> THEN acc ELSE Append(acc, token))
         ELSE SplitFrom(Tail(s), Append(token, Head(s)), acc)

Split(s) == SplitFrom(s, <<>>, <<>>)

\* str.split("\n"): the pieces between the newlines, one more than the newlines.
RECURSIVE SplitLinesFrom(_, _, _)
SplitLinesFrom(s, piece, acc) ==
    IF s = <<>> THEN Append(acc, piece)
    ELSE IF Head(s) = "\n" THEN SplitLinesFrom(Tail(s), <<>>, Append(acc, piece))
    ELSE SplitLinesFrom(Tail(s), Append(piece, Head(s)), acc)

SplitLines(s) == SplitLinesFrom(s, <<>>, <<>>)

(***************************************************************************)
(* shlex.split(s): shlex(s, posix=True) with whitespace_split and no       *)
(* commenters, read to the end.  state is shlex.state: " " between tokens, *)
(* "a" inside a word, a quote character inside quotes, "\\" after an       *)
(* escape (escapedstate is the state the escape returns to).  The result   *)
(* is [ok, parts]; ok is FALSE where shlex raises ValueError.              *)
(***************************************************************************)
ShlexQuotes == {"'", "\""}
ShlexEscape == "\\"

RECURSIVE ShlexFrom(_, _, _, _, _, _)
ShlexFrom(s, state, escapedstate, token, quoted, acc) ==
    IF s = <<>> THEN
        IF state \in ShlexQuotes \/ state = ShlexEscape
        THEN [ok |-> FALSE, parts |-> <<>>]     \* No closing quotation / No escaped character
        ELSE [ok |-> TRUE,
              parts |-> IF token # <<>> \/ quoted THEN Append(acc, token) ELSE acc]
    ELSE LET c == Head(s)
             rest == Tail(s)
         IN
         IF state = " " THEN
            IF c \in Whitespace THEN ShlexFrom(rest, " ", escapedstate, <<>>, FALSE, acc)
            ELSE IF c = ShlexEscape THEN ShlexFrom(rest, ShlexEscape, "a", token, quoted, acc)
            ELSE IF c \in ShlexQuotes THEN ShlexFrom(rest, c, escapedstate, token, TRUE, acc)
            ELSE ShlexFrom(rest, "a", escapedstate, <<c>>, quoted, acc)
         ELSE IF state \in ShlexQuotes THEN
            IF c = state THEN ShlexFrom(rest, "a", escapedstate, token, TRUE, acc)
            ELSE IF c = ShlexEscape /\ state = "\""
                 THEN ShlexFrom(rest, ShlexEscape, state, token, TRUE, acc)
            ELSE ShlexFrom(rest, state, escapedstate, Append(token, c), TRUE, acc)
         ELSE IF state = ShlexEscape THEN
            \* inside double quotes the backslash stays unless it escapes " or \
            LET kept == IF escapedstate \in ShlexQuotes /\ c # ShlexEscape /\ c # escapedstate
                        THEN Append(token, ShlexEscape) ELSE token
            IN ShlexFrom(rest, escapedstate, escapedstate, Append(kept, c), quoted, acc)
         ELSE \* state = "a"
            IF c \in Whitespace
            THEN IF token # <<>> \/ quoted
                 THEN ShlexFrom(rest, " ", escapedstate, <<>>, FALSE, Append(acc, token))
                 ELSE ShlexFrom(rest, " ", escapedstate, <<>>, FALSE, acc)
            ELSE IF c \in ShlexQuotes THEN ShlexFrom(rest, c, escapedstate, token, TRUE, acc)
            ELSE IF c = ShlexEscape THEN ShlexFrom(rest, ShlexEscape, "a", token, quoted, acc)
            ELSE ShlexFrom(rest, "a", escapedstate, Append(token, c), quoted, acc)

ShlexSplit(s) == ShlexFrom(s, " ", " ", <<>>, FALSE, <<>>)

-----------------------------------------------------------------------------
(* The values a bound parameter takes: None, bool, int, float, str.  Every  *)
(* value is a record of the same shape: type is Python's type name, i the  *)
(* integer (bool: 1 or 0; float: the mantissa), e the float's decimal      *)
(* exponent (the float is i * 10^e, trailing zeros of i removed), s the    *)
(* string (float: "inf" or "nan" for the non-finite floats, sign in i).    *)

NoneValue == [type |-> "NoneType", i |-> 0, e |-> 0, s |-> <<>>]
BoolValue(b) == [type |-> "bool", i |-> IF b THEN 1 ELSE 0, e |-> 0, s |-> <<>>]
IntValue(n) == [type |-> "int", i |-> n, e |-> 0, s |-> <<>>]
StrValue(str) == [type |-> "str", i |-> 0, e |-> 0, s |-> str]

RECURSIVE FloatNorm(_, _)
FloatNorm(m, ex) ==
    IF m = 0 THEN [type |-> "float", i |-> 0, e |-> 0, s |-> <<>>]
    ELSE IF m % 10 = 0 THEN FloatNorm(m \div 10, ex + 1)
    ELSE [type |-> "float", i |-> m, e |-> ex, s |-> <<>>]

FloatValue(sign, m, ex) ==
    LET n == FloatNorm(m, ex) IN [n EXCEPT !.i = sign * n.i]
FloatSpecial(sign, name) == [type |-> "float", i |-> sign, e |-> 0, s |-> name]

IsDigit(c) == IsIn(c, Digits)
DigitVal(c) == IndexOf(c, Digits) - 1

RECURSIVE DigitsValue(_)
DigitsValue(s) ==
    IF s = <<>> THEN 0
    ELSE 10 * DigitsValue(SubSeq(s, 1, Len(s) - 1)) + DigitVal(s[Len(s)])

AllDigits(s) == \A i \in 1..Len(s) : IsDigit(s[i])

\* An underscore is allowed only between two digits.
UnderscoresOk(s) ==
    \A i \in 1..Len(s) :
        s[i] = "_" => i > 1 /\ i < Len(s) /\ IsDigit(s[i-1]) /\ IsDigit(s[i+1])
IsNotUnderscore(c) == c # "_"
RemoveUnderscores(s) == SelectSeq(s, IsNotUnderscore)

HasSign(s) == s # <<>> /\ Head(s) \in {"+", "-"}
Unsigned(s) == IF HasSign(s) THEN Tail(s) ELSE s
SignOf(s) == IF s # <<>> /\ Head(s) = "-" THEN -1 ELSE 1

\* int(s) succeeds: whitespace, an optional sign, decimal digits.
IntOk(s) ==
    LET t == Strip(s)
        d == RemoveUnderscores(Unsigned(t))
    IN UnderscoresOk(t) /\ d # <<>> /\ AllDigits(d)

\* int(s), where IntOk(s)
IntOf(s) ==
    LET t == Strip(s) IN SignOf(t) * DigitsValue(RemoveUnderscores(Unsigned(t)))

\* The first position of one of chars in s, or 0.
FirstOf(s, chars) ==
    IF \E i \in 1..Len(s) : s[i] \in chars
    THEN CHOOSE i \in 1..Len(s) : s[i] \in chars /\ \A j \in 1..(i-1) : s[j] \notin chars
    ELSE 0

FloatNames == { <<"i","n","f">>, <<"i","n","f","i","n","i","t","y">>, <<"n","a","n">> }

\* The parts of a decimal float literal without its sign:
\* integer digits, fraction digits, exponent (sign and digits).
FloatParts(body) ==
    LET ePos == FirstOf(body, {"e", "E"})
        mant == IF ePos = 0 THEN body ELSE SubSeq(body, 1, ePos - 1)
        expo == IF ePos = 0 THEN <<>> ELSE SubSeq(body, ePos + 1, Len(body))
        dot  == FirstOf(mant, {"."})
    IN [int    |-> IF dot = 0 THEN mant ELSE SubSeq(mant, 1, dot - 1),
        frac   |-> IF dot = 0 THEN <<>> ELSE SubSeq(mant, dot + 1, Len(mant)),
        hasExp |-> ePos # 0,
        exp    |-> expo]

\* float(s) succeeds: whitespace, an optional sign, then inf, infinity, nan
\* (in any case) or digits with an optional point and an optional exponent.
FloatOk(s) ==
    LET t == Strip(s)
        body == Unsigned(RemoveUnderscores(t))
        p == FloatParts(body)
    IN /\ UnderscoresOk(t)
       /\ \/ Lower(body) \in FloatNames
          \/ /\ AllDigits(p.int) /\ AllDigits(p.frac)
             /\ p.int \o p.frac # <<>>
             /\ p.hasExp => (Unsigned(p.exp) # <<>> /\ AllDigits(Unsigned(p.exp)))

\* float(s), where FloatOk(s)
FloatOf(s) ==
    LET t == Strip(s)
        u == RemoveUnderscores(t)
        body == Unsigned(u)
        p == FloatParts(body)
    IN IF Lower(body) \in FloatNames
       THEN (IF Lower(body) = <<"n","a","n">> THEN FloatSpecial(0, <<"n","a","n">>)
             ELSE FloatSpecial(SignOf(u), <<"i","n","f">>))
       ELSE FloatValue(SignOf(u), DigitsValue(p.int \o p.frac),
                       SignOf(p.exp) * DigitsValue(Unsigned(p.exp)) - Len(p.frac))

(***************************************************************************)
(* SQLiteCLI._parse_parameter_value                                        *)
(***************************************************************************)
ParseParameterValue(str) ==
    IF Upper(str) = <<"N","U","L","L">> THEN NoneValue
    ELSE IF Upper(str) = <<"T","R","U","E">> THEN BoolValue(TRUE)
    ELSE IF Upper(str) = <<"F","A","L","S","E">> THEN BoolValue(FALSE)
    ELSE IF IntOk(str) THEN IntValue(IntOf(str))
    ELSE IF FloatOk(str) THEN FloatOf(str)
    ELSE IF \/ StartsWith(str, <<"\"">>) /\ EndsWith(str, <<"\"">>)
            \/ StartsWith(str, <<"'">>) /\ EndsWith(str, <<"'">>)
         THEN StrValue(SubSeq(str, 2, Len(str) - 1))     \* value_str[1:-1]
    ELSE StrValue(str)

-----------------------------------------------------------------------------
(* The session.  A handler is an operator from the session before it to    *)
(* the session after it.  A session is the record                          *)
(*   [running, timer_enabled, mode, parameters : the attributes of self,   *)
(*    out      : the console messages printed so far in this step,         *)
(*    executed : the units run so far for the current input,               *)
(*    raised   : "" or the name of the exception that is propagating].     *)
(* eng is what the engine answers to the statements of the step: "rows"    *)
(* (a non-empty result), "empty" (no row) or "error" (sqlite3.Error); the  *)
(* database itself is the engine's and is not part of this model.          *)

EngineResults == {"rows", "empty", "error"}

\* The files .read can open: the path and content.split("\n").
ScriptName == <<"f",".","s","q","l">>
NestedName == <<"g",".","s","q","l">>
Files ==
    (ScriptName :> << <<"S","E","L","E","C","T"," ","1",";">>, <<".","m","o","d","e"," ","j","s","o","n">>, <<"-","-"," ","d","o","n","e">>, <<"S","E","L","E","C","T"," ","2">> >>)
    @@ (NestedName :> << <<".","t","i","m","e","r"," ","o","n">>, <<".","r","e","a","d"," ","f",".","s","q","l">>, <<".","s","a","m","p","l","e"," ","t"," ","x">>, <<".","m","o","d","e"," ","c","s","v">> >>)

Say(s, msg) == [s EXCEPT !.out = Append(@, msg)]
Raise(s, exc) == [s EXCEPT !.raised = exc]
Emit(s, kind, txt) == [s EXCEPT !.executed = Append(@, [kind |-> kind, text |-> txt])]

\* modes, in SQLiteCLI._cmd_mode
Modes == << <<"t","a","b","l","e">>, <<"c","s","v">>, <<"j","s","o","n">>, <<"l","i","n","e">> >>

\* SQLiteCLI._print_results: one renderer per mode, none for any other value.
PrintResults(s) ==
    CASE s.mode = <<"t","a","b","l","e">> -> Say(s, "rows as table")
      [] s.mode = <<"c","s","v">> -> Say(s, "rows as csv")
      [] s.mode = <<"j","s","o","n">> -> Say(s, "rows as json")
      [] s.mode = <<"l","i","n","e">> -> Say(s, "rows as line")
      [] OTHER -> s

\* SQLiteCLI._execute_sql: sqlite3.Error is caught, nothing is raised.
ExecuteSql(s, eng) ==
    CASE eng = "rows" ->
            LET r == PrintResults(s)
            IN IF s.timer_enabled THEN Say(r, "N filas en Ts") ELSE r
      [] eng = "empty" -> Say(s, "OK")
      [] eng = "error" -> Say(s, "Error: sqlite3.Error")

\* SQLiteCLI._cmd_tables: the catalog query is outside any try.
CmdTables(s, args, eng) ==
    CASE eng = "error" -> Raise(s, "sqlite3.Error")
      [] eng = "rows" -> Say(s, "tables and views")
      [] eng = "empty" -> Say(s, "No hay tablas")

\* SQLiteCLI._cmd_schema
CmdSchema(s, args, eng) ==
    CASE eng = "error" -> Raise(s, "sqlite3.Error")
      [] eng = "rows" -> Say(s, "schema")
      [] eng = "empty" -> Say(s, "No se encontro schema")

\* SQLiteCLI._cmd_dump
CmdDump(s, args, eng) ==
    IF eng = "error" THEN Raise(s, "sqlite3.Error") ELSE Say(s, "dump")

\* A faulty CmdMode: the argument is compared and stored as typed.
CmdModeCaseSensitive(s, args) ==
    IF args = <<>>
    THEN Say(Say(s, "Modo actual"), "Modos disponibles")
    ELSE IF IsIn(args[1], Modes)
         THEN Say([s EXCEPT !.mode = args[1]], "Modo cambiado")
         ELSE Say(s, "Modo invalido")

\* SQLiteCLI._cmd_mode
CmdMode(s, args) ==
    IF args = <<>>
    THEN Say(Say(s, "Modo actual"), "Modos disponibles")
    ELSE LET m == Lower(args[1])
         IN IF IsIn(m, Modes)
            THEN Say([s EXCEPT !.mode = m], "Modo cambiado")
            ELSE Say(s, "Modo invalido")

\* SQLiteCLI._cmd_import: everything after the argument checks is in a try.
CmdImport(s, args, eng) ==
    IF Len(args) < 2 THEN Say(s, "Uso: .import ARCHIVO.csv TABLA")
    ELSE IF args[1] \notin DOMAIN Files THEN Say(s, "Archivo no encontrado")
    ELSE IF eng = "error" THEN Say(s, "Error: exception")
    ELSE Say(s, "OK - filas importadas")

\* SQLiteCLI._cmd_export
CmdExport(s, args, eng) ==
    IF Len(args) < 2 THEN Say(s, "Uso: .export TABLA ARCHIVO.csv")
    ELSE IF eng = "error" THEN Say(s, "Error: exception")
    ELSE Say(s, "OK - filas exportadas")

\* SQLiteCLI._cmd_columns
CmdColumns(s, args, eng) ==
    IF args = <<>> THEN Say(s, "Uso: .columns TABLA")
    ELSE CASE eng = "rows" -> Say(s, "columns")
           [] eng = "empty" -> Say(s, "Tabla no encontrada")
           [] eng = "error" -> Say(s, "Error: sqlite3.Error")

\* SQLiteCLI._cmd_indexes
CmdIndexes(s, args, eng) ==
    CASE eng = "error" -> Raise(s, "sqlite3.Error")
      [] eng = "rows" -> Say(s, "indexes")
      [] eng = "empty" -> Say(s, "No hay indices")

\* SQLiteCLI._cmd_describe: the columns, the count (its errors swallowed),
\* then the index query, outside any try.
CmdDescribe(s, args, eng) ==
    IF args = <<>> THEN Say(s, "Uso: .describe TABLA")
    ELSE LET cols == CmdColumns(Say(s, "Schema de"), <<args[1]>>, eng)
         IN CASE eng = "error" -> Raise(cols, "sqlite3.Error")
              [] eng = "rows" -> Say(Say(cols, "Filas"), "Indices")
              [] eng = "empty" -> cols

\* SQLiteCLI._cmd_count: with no argument the catalog query is outside any try.
CmdCount(s, args, eng) ==
    IF args = <<>> /\ eng = "error" THEN Raise(s, "sqlite3.Error")
    ELSE Say(s, "counts")

\* SQLiteCLI._cmd_sample: int(args[1]) is outside the try.
CmdSample(s, args, eng) ==
    IF args = <<>> THEN Say(s, "Uso: .sample TABLA [N]")
    ELSE IF Len(args) > 1 /\ ~IntOk(args[2]) THEN Raise(s, "ValueError")
    ELSE ExecuteSql(s, eng)

\* SQLiteCLI._cmd_timer
CmdTimer(s, args) ==
    LET t == IF args # <<>> /\ Lower(args[1]) \in { <<"o","n">>, <<"o","f","f">> }
             THEN Lower(args[1]) = <<"o","n">>
             ELSE ~s.timer_enabled
    IN Say([s EXCEPT !.timer_enabled = t],
           IF t THEN "Timer activado" ELSE "Timer desactivado")

\* SQLiteCLI._cmd_load
CmdLoad(s, args, eng) ==
    IF args = <<>> THEN Say(Say(s, "Uso: .load ARCHIVO [ENTRYPOINT]"), "Ejemplo")
    ELSE IF eng = "error" THEN Say(s, "Error: sqlite3.OperationalError")
    ELSE Say(s, "OK - Extension cargada")

\* SQLiteCLI._cmd_changes
CmdChanges(s, args) == Say(s, "Cambios totales")

\* dict operations on self.parameters
DictSet(d, k, v) == [n \in DOMAIN d \cup {k} |-> IF n = k THEN v ELSE d[n]]
DictDel(d, k) == [n \in DOMAIN d \ {k} |-> d[n]]
EmptyDict == [n \in {} |-> NoneValue]

\* SQLiteCLI._cmd_parameter with no argument: the listing
ListParameters(s) ==
    IF DOMAIN s.parameters # {} THEN Say(s, "parameters") ELSE Say(s, "No hay parametros definidos")

\* A faulty CmdParameter: set keeps the name's sigil.
CmdParameterKeepsSigil(s, args) ==
    IF args = <<>> THEN ListParameters(s)
    ELSE LET subcmd == Lower(args[1]) IN
         IF subcmd = <<"s","e","t">> /\ Len(args) >= 3 THEN
            LET str == Join(SubSeq(args, 3, Len(args)), <<" ">>)
            IN Say([s EXCEPT !.parameters = DictSet(@, args[2], ParseParameterValue(str))],
                   "OK parameter set")
         ELSE IF subcmd = <<"u","n","s","e","t">> /\ Len(args) >= 2 THEN
            LET name == LStripChars(args[2], {":", "@"})
            IN IF name \in DOMAIN s.parameters
               THEN Say([s EXCEPT !.parameters = DictDel(@, name)], "OK Eliminado")
               ELSE Say(s, "Parametro no encontrado")
         ELSE IF subcmd = <<"c","l","e","a","r">> THEN
            Say([s EXCEPT !.parameters = EmptyDict], "OK Eliminados")
         ELSE IF subcmd = <<"l","i","s","t">> THEN ListParameters(s)
         ELSE Say(s, "Uso: .parameter")

\* SQLiteCLI._cmd_parameter
CmdParameter(s, args) ==
    IF args = <<>> THEN ListParameters(s)
    ELSE LET subcmd == Lower(args[1]) IN
         IF subcmd = <<"s","e","t">> /\ Len(args) >= 3 THEN
            LET name == LStripChars(args[2], {":", "@"})
                str == Join(SubSeq(args, 3, Len(args)), <<" ">>)
            IN Say([s EXCEPT !.parameters = DictSet(@, name, ParseParameterValue(str))],
                   "OK parameter set")
         ELSE IF subcmd = <<"u","n","s","e","t">> /\ Len(args) >= 2 THEN
            LET name == LStripChars(args[2], {":", "@"})
            IN IF name \in DOMAIN s.parameters
               THEN Say([s EXCEPT !.parameters = DictDel(@, name)], "OK Eliminado")
               ELSE Say(s, "Parametro no encontrado")
         ELSE IF subcmd = <<"c","l","e","a","r">> THEN
            Say([s EXCEPT !.parameters = EmptyDict], "OK Eliminados")
         ELSE IF subcmd = <<"l","i","s","t">> THEN ListParameters(s)
         ELSE Say(s, "Uso: .parameter")

\* A faulty CmdQuit: the flag is left as it is.
CmdQuitKeepsRunning(s, args) == s

\* SQLiteCLI._cmd_quit
CmdQuit(s, args) == [s EXCEPT !.running = FALSE]

\* SQLiteCLI._cmd_help
CmdHelp(s, args) == Say(s, "Comandos disponibles")

-----------------------------------------------------------------------------
(* The dispatcher and the script reader, which call each other: a script   *)
(* line may be a dot-command, and .read is one.                            *)

RECURSIVE HandleDotCommand(_, _, _)

\* _cmd_read, the flush of sql_buffer: "\n".join(sql_buffer).strip(), run if not empty
FlushSql(s, buf, eng) ==
    LET sql == Strip(Join(buf, <<"\n">>))
    IN IF sql # <<>> THEN ExecuteSql(Emit(s, "sql", sql), eng) ELSE s

\* A faulty ReadLine: a dot-command discards the pending buffer unexecuted.
ReadLineDropsPending(s, buf, line, eng) ==
    LET stripped == Strip(line) IN
    IF stripped = <<>> \/ StartsWith(stripped, <<"-","-">>)
    THEN [s |-> s, buf |-> buf]
    ELSE IF StartsWith(stripped, <<".">>)
    THEN [s |-> HandleDotCommand(Emit(s, "dot", stripped), stripped, eng), buf |-> <<>>]
    ELSE LET appended == Append(buf, line)
         IN IF EndsWith(stripped, <<";">>)
            THEN [s |-> FlushSql(s, appended, eng), buf |-> <<>>]
            ELSE [s |-> s, buf |-> appended]

\* A faulty ReadLine: the stripped line is buffered, not the original.
ReadLineBuffersStripped(s, buf, line, eng) ==
    LET stripped == Strip(line) IN
    IF stripped = <<>> \/ StartsWith(stripped, <<"-","-">>)
    THEN [s |-> s, buf |-> buf]
    ELSE IF StartsWith(stripped, <<".">>)
    THEN LET flushed == IF buf # <<>> THEN FlushSql(s, buf, eng) ELSE s
         IN [s |-> HandleDotCommand(Emit(flushed, "dot", stripped), stripped, eng),
             buf |-> <<>>]
    ELSE LET appended == Append(buf, stripped)
         IN IF EndsWith(stripped, <<";">>)
            THEN [s |-> FlushSql(s, appended, eng), buf |-> <<>>]
            ELSE [s |-> s, buf |-> appended]

\* A faulty ReadLine: the comment test reads the line before it is stripped.
ReadLineRawComment(s, buf, line, eng) ==
    LET stripped == Strip(line) IN
    IF stripped = <<>> \/ StartsWith(line, <<"-","-">>)
    THEN [s |-> s, buf |-> buf]
    ELSE IF StartsWith(stripped, <<".">>)
    THEN LET flushed == IF buf # <<>> THEN FlushSql(s, buf, eng) ELSE s
         IN [s |-> HandleDotCommand(Emit(flushed, "dot", stripped), stripped, eng),
             buf |-> <<>>]
    ELSE LET appended == Append(buf, line)
         IN IF EndsWith(stripped, <<";">>)
            THEN [s |-> FlushSql(s, appended, eng), buf |-> <<>>]
            ELSE [s |-> s, buf |-> appended]

(***************************************************************************)
(* _cmd_read, one pass of `for line in lines`, from the session s and the  *)
(* buffer buf to [s, buf].                                                 *)
(***************************************************************************)
ReadLine(s, buf, line, eng) ==
    LET stripped == Strip(line) IN
    IF stripped = <<>> \/ StartsWith(stripped, <<"-","-">>)
    THEN [s |-> s, buf |-> buf]
    ELSE IF StartsWith(stripped, <<".">>)
    THEN LET flushed == IF buf # <<>> THEN FlushSql(s, buf, eng) ELSE s
         IN [s |-> HandleDotCommand(Emit(flushed, "dot", stripped), stripped, eng),
             buf |-> <<>>]
    ELSE LET appended == Append(buf, line)
         IN IF EndsWith(stripped, <<";">>)
            THEN [s |-> FlushSql(s, appended, eng), buf |-> <<>>]
            ELSE [s |-> s, buf |-> appended]

\* A faulty ReadEnd: what is left in the buffer is not run.
ReadEndDropsBuffer(s, buf, eng) == Say(s, "OK - Ejecutado")

\* _cmd_read after the loop: the rest of the buffer, then the completion message
ReadEnd(s, buf, eng) ==
    Say(IF buf # <<>> THEN FlushSql(s, buf, eng) ELSE s, "OK - Ejecutado")

\* _cmd_read's `except Exception`: the exception is reported and ends there
ReadExcept(s) == Say(Raise(s, ""), "Error: exception")

\* _cmd_read's try block over the lines of a file
RECURSIVE ReadLines(_, _, _, _)
ReadLines(s, buf, rest, eng) ==
    IF s.raised # "" THEN ReadExcept(s)
    ELSE IF rest = <<>> THEN ReadEnd(s, buf, eng)
    ELSE LET r == ReadLine(s, buf, Head(rest), eng)
         IN ReadLines(r.s, r.buf, Tail(rest), eng)

\* SQLiteCLI._cmd_read
CmdRead(s, args, eng) ==
    IF args = <<>> THEN Say(s, "Uso: .read ARCHIVO")
    ELSE IF args[1] \notin DOMAIN Files THEN Say(s, "Archivo no encontrado")
    ELSE ReadLines(s, <<>>, Files[args[1]], eng)

\* shlex.split(text), or text.split() where shlex raises ValueError
Parts(txt) ==
    LET sh == ShlexSplit(txt) IN IF sh.ok THEN sh.parts ELSE Split(txt)

\* SQLiteCLI._handle_dot_command
HandleDotCommand(s, txt, eng) ==
    LET parts == Parts(txt)
        cmd == Lower(parts[1])
        args == Tail(parts)
    IN CASE cmd = <<".","t","a","b","l","e","s">> -> CmdTables(s, args, eng)
         [] cmd = <<".","s","c","h","e","m","a">> -> CmdSchema(s, args, eng)
         [] cmd = <<".","r","e","a","d">> -> CmdRead(s, args, eng)
         [] cmd = <<".","d","u","m","p">> -> CmdDump(s, args, eng)
         [] cmd = <<".","m","o","d","e">> -> CmdMode(s, args)
         [] cmd = <<".","i","m","p","o","r","t">> -> CmdImport(s, args, eng)
         [] cmd = <<".","e","x","p","o","r","t">> -> CmdExport(s, args, eng)
         [] cmd = <<".","c","o","l","u","m","n","s">> -> CmdColumns(s, args, eng)
         [] cmd = <<".","i","n","d","e","x","e","s">> -> CmdIndexes(s, args, eng)
         [] cmd = <<".","d","e","s","c","r","i","b","e">> -> CmdDescribe(s, args, eng)
         [] cmd = <<".","c","o","u","n","t">> -> CmdCount(s, args, eng)
         [] cmd = <<".","s","a","m","p","l","e">> -> CmdSample(s, args, eng)
         [] cmd = <<".","t","i","m","e","r">> -> CmdTimer(s, args)
         [] cmd = <<".","c","h","a","n","g","e","s">> -> CmdChanges(s, args)
         [] cmd \in { <<".","p","a","r","a","m","e","t","e","r">>, <<".","p","a","r","a","m">> } -> CmdParameter(s, args)
         [] cmd = <<".","l","o","a","d">> -> CmdLoad(s, args, eng)
         [] cmd \in { <<".","q","u","i","t">>, <<".","e","x","i","t">> } -> CmdQuit(s, args)
         [] cmd = <<".","h","e","l","p">> -> CmdHelp(s, args)
         [] OTHER -> Say(Say(s, "Comando desconocido"), "Usa .help")

-----------------------------------------------------------------------------
(* The inputs.                                                             *)

\* What is typed at the prompt (multiline=True: a text may hold newlines).
PromptTexts == {
    <<>>, <<"S","E","L","E","C","T"," ","1",";">>, <<" "," ","S","E","L","E","C","T","\n","1",";"," "," ">>,
    <<".","t","a","b","l","e","s">>, <<".","s","c","h","e","m","a"," ","t">>, <<".","d","u","m","p">>, <<".","i","n","d","e","x","e","s">>, <<".","c","h","a","n","g","e","s">>, <<".","h","e","l","p">>,
    <<".","b","o","g","u","s">>, <<".">>,
    <<".","r","e","a","d">>, <<".","r","e","a","d"," ","f",".","s","q","l">>, <<".","r","e","a","d"," ","g",".","s","q","l">>, <<".","r","e","a","d"," ","n","o","f","i","l","e">>,
    <<".","m","o","d","e">>, <<".","m","o","d","e"," ","c","s","v">>, <<".","m","o","d","e"," ","C","S","V">>, <<".","M","o","d","e"," ","J","s","o","n">>, <<".","m","o","d","e"," ","l","i","n","e">>,
    <<".","m","o","d","e"," ","t","a","b","l","e">>, <<".","m","o","d","e"," ","x","m","l">>, <<".","m","o","d","e"," ","\"","\"">>,
    <<".","i","m","p","o","r","t"," ","f",".","s","q","l">>, <<".","i","m","p","o","r","t"," ","f",".","s","q","l"," ","t">>, <<".","e","x","p","o","r","t">>, <<".","e","x","p","o","r","t"," ","t"," ","o","u","t",".","c","s","v">>,
    <<".","c","o","l","u","m","n","s">>, <<".","d","e","s","c","r","i","b","e">>, <<".","d","e","s","c","r","i","b","e"," ","t">>, <<".","c","o","u","n","t">>,
    <<".","s","a","m","p","l","e">>, <<".","s","a","m","p","l","e"," ","t"," ","3">>, <<".","s","a","m","p","l","e"," ","t"," ","a","b","c">>,
    <<".","t","i","m","e","r">>, <<".","t","i","m","e","r"," ","o","n">>, <<".","t","i","m","e","r"," ","O","F","F">>, <<".","t","i","m","e","r"," ","m","a","y","b","e">>,
    <<".","p","a","r","a","m","e","t","e","r">>, <<".","p","a","r","a","m"," ","l","i","s","t">>, <<".","p","a","r","a","m","e","t","e","r"," ","s","e","t"," ","x"," ","5">>, <<".","p","a","r","a","m"," ","s","e","t"," ",":","x"," ","\"","a"," ","b","\"">>,
    <<".","p","a","r","a","m","e","t","e","r"," ","s","e","t"," ","@","y"," ","N","U","L","L">>, <<".","p","a","r","a","m","e","t","e","r"," ","s","e","t"," ","x"," ","\"">>, <<".","p","a","r","a","m","e","t","e","r"," ","s","e","t"," ","x">>,
    <<".","p","a","r","a","m","e","t","e","r"," ","u","n","s","e","t"," ","x">>, <<".","p","a","r","a","m"," ","u","n","s","e","t"," ",":","y">>, <<".","p","a","r","a","m","e","t","e","r"," ","u","n","s","e","t">>,
    <<".","p","a","r","a","m","e","t","e","r"," ","c","l","e","a","r">>, <<".","p","a","r","a","m","e","t","e","r"," ","b","o","g","u","s">>,
    <<".","l","o","a","d">>, <<".","l","o","a","d"," ","e","x","t",".","s","o">>,
    <<".","q","u","i","t">>, <<".","E","X","I","T">>, <<".","E","x","i","t"," ","n","o","w">> }

\* The lines of a script: blank lines, comments, SQL lines with and without
\* the terminator, dot-commands; with and without surrounding whitespace.
ScriptLines == {
    <<>>, <<" ">>, <<"-","-">>, <<" ","-","-","a">>, <<"-","-",";">>, <<"-","a">>,
    <<"a">>, <<" ","a">>, <<"a",";">>, <<"a",";"," ">>, <<";","a">>,
    <<".","a">>, <<" ",".","a"," ">>, <<".","a",";">>, <<".","q","u","i","t">>, <<".","s","a","m","p","l","e"," ","t"," ","x">> }

RECURSIVE SeqsUpTo(_, _)
SeqsUpTo(S, n) ==
    IF n = 0 THEN {<<>>}
    ELSE LET shorter == SeqsUpTo(S, n - 1)
         IN shorter \cup {Append(q, x) : q \in shorter, x \in S}

\* The contents of default.sql, as content.split("\n"): at least one line.
Scripts == SeqsUpTo(ScriptLines, MaxLines) \ {<<>>}

\* The characters of the strings SpecParse draws exhaustively.
ValueChars == {"0", "1", ".", "-", "e", "_", "\"", "'", "a", " "}

ValueStrs ==
    SeqsUpTo(ValueChars, MaxValueLen)
    \cup { <<"N","U","L","L">>, <<"n","u","l","l">>, <<"N","u","l","l">>, <<"T","R","U","E">>, <<"t","r","u","e">>, <<"F","A","L","S","E">>, <<"F","a","l","s","e">>,
           <<"4","2">>, <<"3",".","1","4">>, <<"\"","a","b","c","\"">>, <<"a","b","c">>, <<"\"","1","2","3","\"">>, <<"'","1","2","3","'">>, <<"\"","1","2","'">>,
           <<"+","5">>, <<" ","4","2"," ">>, <<"1","e","-","2">>, <<"i","n","f">>, <<"N","a","N">>, <<"-","I","n","f","i","n","i","t","y">>, <<"\"","N","U","L","L","\"">>,
           <<"'","t","r","u","e","'">>, <<"n","u","l">>, <<"T","R","U","E","E">>, <<"1","_","0","0","0">> }

-----------------------------------------------------------------------------
(* The state machine.                                                      *)

\* self, as a step finds it
Self == [running |-> running, timer_enabled |-> timer_enabled, mode |-> mode,
         parameters |-> parameters, out |-> <<>>, executed |-> executed, raised |-> ""]

\* SQLiteCLI.__init__
InitSession ==
    /\ running = TRUE
    /\ timer_enabled = FALSE
    /\ mode = <<"t","a","b","l","e">>
    /\ parameters = EmptyDict
    /\ conn = "open"
    /\ exit_code = -1
    /\ out = <<>>
    /\ executed = <<>>
    /\ text = <<>>
    /\ last = "none"
    /\ consumed = <<>>
    /\ sql_buffer = <<>>

\* The parts of the model a specification does not use.
Idle ==
    /\ buff = <<>>
    /\ document = [text |-> <<>>, cursor |-> 0]
    /\ completions = <<>>
    /\ db = <<>>
    /\ fs = <<>>
    /\ listed = [printed |-> FALSE, rows |-> <<>>, catalog |-> {}]

\* The attributes of self take the values of session s.
Becomes(s) ==
    /\ running' = s.running
    /\ timer_enabled' = s.timer_enabled
    /\ mode' = s.mode
    /\ parameters' = s.parameters
    /\ executed' = s.executed

(***************************************************************************)
(* run(), from the end of one step of the loop to the next prompt: an      *)
(* exception that left the step leaves run() and is reported by the        *)
(* module's `except Exception`; otherwise `while self.running` is tested,  *)
(* and when it fails the connection is closed and run() returns.           *)
(***************************************************************************)
Continue(s) ==
    IF s.raised # ""
    THEN /\ pc' = "fatal"
         /\ out' = Append(s.out, "Error fatal")
         /\ exit_code' = 1
         /\ conn' = conn
    ELSE IF ~s.running
    THEN /\ pc' = "exited"
         /\ out' = Append(s.out, "Bye!")
         /\ exit_code' = 0
         /\ conn' = "closed"
    ELSE /\ pc' = "prompt"
         /\ out' = s.out
         /\ exit_code' = exit_code
         /\ conn' = conn

\* run(), the body of the loop after the prompt has returned text
RunText(s, txt, eng) ==
    IF txt = <<>> THEN s
    ELSE IF StartsWith(txt, <<".">>)
    THEN HandleDotCommand(Emit(s, "dot", txt), txt, eng)
    ELSE ExecuteSql(Emit(s, "sql", txt), eng)

\* A step leaves the script reader's variables empty.
NoScript == lines' = <<>> /\ consumed' = <<>> /\ sql_buffer' = <<>>

\* run(): text = self.session.prompt("sqlite> ").strip()
PromptReturns ==
    /\ pc = "prompt"
    /\ \E typed \in PromptTexts : text' = Strip(typed)
    /\ last' = "text"
    /\ pc' = "dispatch"
    /\ out' = <<>>
    /\ executed' = <<>>
    /\ NoScript
    /\ UNCHANGED <<running, timer_enabled, mode, parameters, conn, exit_code,
                   value_str, value>>
    /\ UNCHANGED <<buff, document, completions, db, fs, listed>>

\* run(): the rest of the loop's body, and the loop's test
Dispatch ==
    /\ pc = "dispatch"
    /\ \E eng \in EngineResults :
        LET s == RunText(Self, text, eng)
        IN Becomes(s) /\ Continue(s)
    /\ NoScript
    /\ UNCHANGED <<text, last, value_str, value>>
    /\ UNCHANGED <<buff, document, completions, db, fs, listed>>

\* run(), `except KeyboardInterrupt`: the prompt is interrupted
PromptInterrupt ==
    /\ pc = "prompt"
    /\ last' = "KeyboardInterrupt"
    /\ out' = <<"Usa .quit para salir">>
    /\ executed' = <<>>
    /\ NoScript
    /\ UNCHANGED <<running, timer_enabled, mode, parameters, conn, pc, exit_code,
                   text, value_str, value>>
    /\ UNCHANGED <<buff, document, completions, db, fs, listed>>

\* run(), `except EOFError: break`, then the close
PromptEof ==
    /\ pc = "prompt"
    /\ last' = "EOFError"
    /\ pc' = "exited"
    /\ conn' = "closed"
    /\ out' = <<"Bye!">>
    /\ exit_code' = 0
    /\ executed' = <<>>
    /\ NoScript
    /\ UNCHANGED <<running, timer_enabled, mode, parameters, text, value_str, value>>
    /\ UNCHANGED <<buff, document, completions, db, fs, listed>>

\* _cmd_read([default.sql]) from run(): one line of the file
ReadLineStep ==
    /\ pc = "read"
    /\ lines # <<>>
    /\ \E eng \in EngineResults :
        LET r == ReadLine(Self, sql_buffer, Head(lines), eng)
        IN IF r.s.raised # ""
           THEN /\ Becomes(r.s)
                /\ Continue(ReadExcept(r.s))
                /\ sql_buffer' = r.buf
           ELSE /\ Becomes(r.s)
                /\ out' = r.s.out
                /\ sql_buffer' = r.buf
                /\ UNCHANGED <<pc, conn, exit_code>>
    /\ lines' = Tail(lines)
    /\ consumed' = Append(consumed, Head(lines))
    /\ UNCHANGED <<text, last, value_str, value>>
    /\ UNCHANGED <<buff, document, completions, db, fs, listed>>

\* _cmd_read([default.sql]) from run(): the end of the file
ReadEofStep ==
    /\ pc = "read"
    /\ lines = <<>>
    /\ \E eng \in EngineResults :
        LET s == ReadEnd(Self, sql_buffer, eng)
        IN Becomes(s) /\ Continue(s)
    /\ sql_buffer' = <<>>
    /\ UNCHANGED <<text, last, lines, consumed, value_str, value>>
    /\ UNCHANGED <<buff, document, completions, db, fs, listed>>

\* _parse_parameter_value(value_str)
ParseStep ==
    /\ pc = "parse"
    /\ value' = ParseParameterValue(value_str)
    /\ pc' = "parsed"
    /\ UNCHANGED <<running, timer_enabled, mode, parameters, conn, exit_code, out,
                   executed, text, last, lines, consumed, sql_buffer, value_str>>
    /\ UNCHANGED <<buff, document, completions, db, fs, listed>>

\* run() with no default.sql in the working directory
Init ==
    /\ InitSession
    /\ pc = "prompt"
    /\ lines = <<>>
    /\ value_str = <<>>
    /\ value = NoneValue
    /\ Idle

\* run() with a default.sql
InitRead ==
    /\ InitSession
    /\ pc = "read"
    /\ lines \in Scripts
    /\ value_str = <<>>
    /\ value = NoneValue
    /\ Idle

InitParse ==
    /\ InitSession
    /\ pc = "parse"
    /\ lines = <<>>
    /\ value_str \in ValueStrs
    /\ value = NoneValue
    /\ Idle

Next == PromptReturns \/ Dispatch \/ PromptInterrupt \/ PromptEof
NextRead == ReadLineStep \/ ReadEofStep
NextParse == ParseStep

Spec == Init /\ [][Next]_vars
SpecRead == InitRead /\ [][NextRead]_vars
SpecParse == InitParse /\ [][NextParse]_vars

-----------------------------------------------------------------------------
(* The prompt's buffer under create_key_bindings.  The session is          *)
(* multiline: what is typed is inserted at the cursor, which this model    *)
(* keeps at the end of the buffer; Enter sends the buffer or inserts a     *)
(* newline; Alt+Enter and Ctrl+O send it whatever it holds.                *)

\* What is typed on one line of the buffer.
EditPieces == { <<"a">>, <<"a",";">>, <<";">>, <<" ","a">>, <<".","a">>, <<"-","-","c">>, <<".","q","u","i","t">> }

\* buff.text ends a line: nothing typed yet on the current one
AtLineStart == IF buff = <<>> THEN TRUE ELSE buff[Len(buff)] = "\n"

\* the lines of buff.text
BuffLines == Len(SplitLines(buff))

\* buff.validate_and_handle(): session.prompt() returns buff.text, and run()
\* strips it
Submit ==
    /\ text' = Strip(buff)
    /\ last' = "text"
    /\ pc' = "dispatch"
    /\ out' = <<>>
    /\ executed' = <<>>
    /\ NoScript
    /\ UNCHANGED <<running, timer_enabled, mode, parameters, conn, exit_code,
                   value_str, value, buff, document, completions, db, fs, listed>>

\* run(): self.session.prompt("sqlite> ") opens an empty buffer
PromptOpens ==
    /\ pc = "prompt"
    /\ pc' = "edit"
    /\ buff' = <<>>
    /\ UNCHANGED <<running, timer_enabled, mode, parameters, conn, exit_code, out,
                   executed, text, last, lines, consumed, sql_buffer, value_str, value,
                   document, completions, db, fs, listed>>

\* the user types a line's worth of text
TypeText ==
    /\ pc = "edit"
    /\ AtLineStart
    /\ \E piece \in EditPieces : buff' = buff \o piece
    /\ UNCHANGED <<running, timer_enabled, mode, parameters, conn, pc, exit_code, out,
                   executed, text, last, lines, consumed, sql_buffer, value_str, value,
                   document, completions, db, fs, listed>>

\* create_key_bindings, Keys.Enter: send a dot-command, a text that ends with
\* ';' or an empty text; otherwise insert a newline
EnterKey ==
    /\ pc = "edit"
    /\ LET stripped == Strip(buff) IN
       IF StartsWith(stripped, <<".">>) THEN Submit
       ELSE IF EndsWith(stripped, <<";">>) THEN Submit
       ELSE IF stripped = <<>> THEN Submit
       ELSE /\ BuffLines < MaxEditLines
            /\ buff' = buff \o <<"\n">>
            /\ UNCHANGED <<running, timer_enabled, mode, parameters, conn, pc, exit_code,
                           out, executed, text, last, lines, consumed, sql_buffer,
                           value_str, value, document, completions, db, fs, listed>>

\* create_key_bindings, Alt+Enter and Ctrl+O: send the buffer as it is
ForceSend ==
    /\ pc = "edit"
    /\ Submit

\* run() with no default.sql, the prompt edited key by key
InitEdit == Init

NextEdit == PromptOpens \/ TypeText \/ EnterKey \/ ForceSend \/ Dispatch

SpecEdit == InitEdit /\ [][NextEdit]_vars

-----------------------------------------------------------------------------
(* SQLiteCompleter.  The database is a sequence of its tables and views in *)
(* the order of sqlite_master, each [name, kind, cols, rows].              *)

\* self.keywords
Keywords == <<
    <<"S","E","L","E","C","T">>, <<"F","R","O","M">>, <<"W","H","E","R","E">>, <<"I","N","S","E","R","T">>, <<"I","N","T","O">>, <<"V","A","L","U","E","S">>,
    <<"U","P","D","A","T","E">>, <<"S","E","T">>, <<"D","E","L","E","T","E">>, <<"C","R","E","A","T","E">>, <<"T","A","B","L","E">>, <<"I","N","D","E","X">>,
    <<"V","I","E","W">>, <<"T","R","I","G","G","E","R">>, <<"D","R","O","P">>, <<"A","L","T","E","R">>, <<"J","O","I","N">>, <<"L","E","F","T">>,
    <<"R","I","G","H","T">>, <<"I","N","N","E","R">>, <<"O","U","T","E","R">>, <<"C","R","O","S","S">>, <<"N","A","T","U","R","A","L">>, <<"O","N">>,
    <<"U","S","I","N","G">>, <<"G","R","O","U","P">>, <<"B","Y">>, <<"O","R","D","E","R">>, <<"H","A","V","I","N","G">>, <<"L","I","M","I","T">>,
    <<"O","F","F","S","E","T">>, <<"U","N","I","O","N">>, <<"I","N","T","E","R","S","E","C","T">>, <<"E","X","C","E","P","T">>, <<"A","N","D">>, <<"O","R">>,
    <<"N","O","T">>, <<"I","N">>, <<"L","I","K","E">>, <<"G","L","O","B">>, <<"B","E","T","W","E","E","N">>, <<"I","S">>,
    <<"N","U","L","L">>, <<"T","R","U","E">>, <<"F","A","L","S","E">>, <<"E","X","I","S","T","S">>, <<"C","A","S","E">>, <<"W","H","E","N">>,
    <<"T","H","E","N">>, <<"E","L","S","E">>, <<"E","N","D">>, <<"A","S">>, <<"D","I","S","T","I","N","C","T">>, <<"A","L","L">>,
    <<"A","S","C">>, <<"D","E","S","C">>, <<"P","R","I","M","A","R","Y">>, <<"K","E","Y">>, <<"F","O","R","E","I","G","N">>, <<"R","E","F","E","R","E","N","C","E","S">>,
    <<"U","N","I","Q","U","E">>, <<"C","H","E","C","K">>, <<"D","E","F","A","U","L","T">>, <<"A","U","T","O","I","N","C","R","E","M","E","N","T">>, <<"I","F">>, <<"N","O","T">>,
    <<"E","X","I","S","T","S">>, <<"B","E","G","I","N">>, <<"C","O","M","M","I","T">>, <<"R","O","L","L","B","A","C","K">>, <<"T","R","A","N","S","A","C","T","I","O","N">>, <<"S","A","V","E","P","O","I","N","T">>,
    <<"P","R","A","G","M","A">>, <<"E","X","P","L","A","I","N">>, <<"A","N","A","L","Y","Z","E">>, <<"V","A","C","U","U","M">>, <<"R","E","I","N","D","E","X">>, <<"C","O","U","N","T">>,
    <<"S","U","M">>, <<"A","V","G">>, <<"M","I","N">>, <<"M","A","X">>, <<"T","O","T","A","L">>, <<"G","R","O","U","P","_","C","O","N","C","A","T">>,
    <<"A","B","S">>, <<"C","O","A","L","E","S","C","E">>, <<"I","F","N","U","L","L">>, <<"N","U","L","L","I","F">>, <<"L","E","N","G","T","H">>, <<"L","O","W","E","R">>,
    <<"U","P","P","E","R">>, <<"T","R","I","M">>, <<"L","T","R","I","M">>, <<"R","T","R","I","M">>, <<"S","U","B","S","T","R">>, <<"R","E","P","L","A","C","E">>,
    <<"D","A","T","E">>, <<"T","I","M","E">>, <<"D","A","T","E","T","I","M","E">>, <<"S","T","R","F","T","I","M","E">>, <<"J","U","L","I","A","N","D","A","Y">> >>

\* self.dot_commands
DotCommands == <<
    <<".","t","a","b","l","e","s">>, <<".","s","c","h","e","m","a">>, <<".","r","e","a","d">>, <<".","m","o","d","e">>, <<".","q","u","i","t">>, <<".","e","x","i","t">>,
    <<".","h","e","l","p">>, <<".","d","u","m","p">>, <<".","i","m","p","o","r","t">>, <<".","e","x","p","o","r","t">>, <<".","c","o","l","u","m","n","s">>, <<".","i","n","d","e","x","e","s">>,
    <<".","d","e","s","c","r","i","b","e">>, <<".","c","o","u","n","t">>, <<".","s","a","m","p","l","e">>, <<".","t","i","m","e","r">>, <<".","c","h","a","n","g","e","s">>, <<".","p","a","r","a","m","e","t","e","r">>,
    <<".","p","a","r","a","m">>, <<".","l","o","a","d">> >>

\* sub in s
Contains(s, sub) ==
    \E i \in 0..(Len(s) - Len(sub)) : SubSeq(s, i + 1, i + Len(sub)) = sub

\* The characters of a word for document.get_word_before_cursor():
\* [a-zA-Z0-9_]; a run of other characters that are no whitespace is a word
\* of its own.
IsWordChar(c) == IsIn(c, UpperCase) \/ IsIn(c, LowerCase) \/ IsIn(c, Digits) \/ c = "_"

RECURSIVE WordRun(_, _)
WordRun(s, wordchars) ==
    IF s = <<>> THEN <<>>
    ELSE LET c == s[Len(s)] IN
         IF c \in Whitespace \/ IsWordChar(c) # wordchars THEN <<>>
         ELSE Append(WordRun(SubSeq(s, 1, Len(s) - 1), wordchars), c)

\* document.get_word_before_cursor(): empty after whitespace or at the start
GetWordBeforeCursor(before) ==
    IF before = <<>> THEN <<>>
    ELSE IF before[Len(before)] \in Whitespace THEN <<>>
    ELSE WordRun(before, IsWordChar(before[Len(before)]))

\* SQLiteCompleter._get_tables: the names in sqlite_master, in its order
GetTables(database) == [i \in 1..Len(database) |-> database[i].name]

\* SQLiteCompleter._get_columns_from_context, before list(set(columns)): the
\* columns of the tables whose upper-cased name occurs in the upper-cased text
ContextColumns(database, txt) ==
    UNION { {database[i].cols[j] : j \in 1..Len(database[i].cols)} :
            i \in {k \in 1..Len(database) : Contains(Upper(txt), Upper(database[k].name))} }

\* list(set(columns)): the columns once each, in an order the hash decides
Orders(S) ==
    {q \in [1..Cardinality(S) -> S] : \A x \in S : \E i \in 1..Cardinality(S) : q[i] = x}

\* the candidates of a list that start with the word, in the list's order
Matching(candidates, prefix, upper) ==
    SelectSeq(candidates, LAMBDA c : StartsWith(IF upper THEN Upper(c) ELSE c, prefix))

\* get_completions, the stage of the dot-commands
DotStage(doc) == Matching(DotCommands, Lower(doc.text), FALSE)

\* get_completions, the stages of the columns, the tables and the keywords
SqlStages(doc, database, columns) ==
    LET before == SubSeq(doc.text, 1, doc.cursor)
        text_upper == Upper(before)
        word == Upper(GetWordBeforeCursor(before))
        cols == IF (Contains(text_upper, <<"S","E","L","E","C","T">>) \/ Contains(text_upper, <<"W","H","E","R","E">>))
                   /\ Contains(text_upper, <<"F","R","O","M">>)
                THEN Matching(columns, word, TRUE) ELSE <<>>
        tabs == IF \E tw \in { <<"F","R","O","M">>, <<"J","O","I","N">>, <<"I","N","T","O">>, <<"U","P","D","A","T","E">>, <<"T","A","B","L","E">> } :
                      Contains(text_upper, tw)
                THEN Matching(GetTables(database), word, TRUE) ELSE <<>>
    IN cols \o tabs \o Matching(Keywords, word, FALSE)

\* A faulty get_completions: the dot-command stage does not return, and the
\* SQL stages follow it.
GetCompletionsFallsThrough(doc, database, columns) ==
    IF StartsWith(doc.text, <<".">>)
    THEN DotStage(doc) \o SqlStages(doc, database, columns)
    ELSE SqlStages(doc, database, columns)

\* SQLiteCompleter.get_completions: everything it yields, in order; columns
\* is list(set(columns)) of _get_columns_from_context
GetCompletions(doc, database, columns) ==
    IF StartsWith(doc.text, <<".">>)
    THEN DotStage(doc)
    ELSE SqlStages(doc, database, columns)

\* The texts in the buffer when completion is asked for.
DocumentTexts == {
    <<>>, <<".">>, <<".","t">>, <<".","t","a","b">>, <<".","T","A","B">>, <<".","P","a">>, <<".","t","a","b","l","e","s">>, <<".","t","a","b","l","e","s"," ">>,
    <<".","x">>, <<".","q">>, <<".","e">>, <<"."," ","t">>, <<" ",".","t","a","b">>, <<"t","a","b">>, <<"t",".","n">>, <<"s","e","l">>,
    <<"f","r","o","m"," ","t">>, <<"F","R","O","M"," ","t","a","b"," ","W","H","E","R","E"," ","n">>, <<"s","e","l","e","c","t"," "," ","f","r","o","m"," ","t">>, <<"U","p","d","a","t","e"," ","T"," ","s","e","t"," ">>,
    <<"n">>, <<"j","o","i","n"," ","t","_">> }

\* The documents: a text and the cursor's position in it.
Documents ==
    UNION { {[text |-> t, cursor |-> c] : c \in 0..Len(t)} : t \in DocumentTexts }

\* The databases the completer reads.
CompleterDbs == {
    <<>>,
    << [name |-> <<"t">>, kind |-> "table", cols |-> << <<"n">>, <<"t","a","b">> >>, rows |-> <<>>] >>,
    << [name |-> <<"t","a","b">>, kind |-> "table", cols |-> << <<"n">> >>, rows |-> <<>>],
       [name |-> <<"T","_","v">>, kind |-> "view", cols |-> << <<"n">>, <<"N","a","m","e">> >>, rows |-> <<>>] >> }

\* get_completions(document, complete_event), read to its end
CompleteStep ==
    /\ pc = "complete"
    /\ \E columns \in Orders(ContextColumns(db, SubSeq(document.text, 1, document.cursor))) :
          completions' = GetCompletions(document, db, columns)
    /\ pc' = "completed"
    /\ UNCHANGED <<running, timer_enabled, mode, parameters, conn, exit_code, out,
                   executed, text, last, lines, consumed, sql_buffer, value_str, value,
                   buff, document, db, fs, listed>>

InitComplete ==
    /\ InitSession
    /\ pc = "complete"
    /\ lines = <<>>
    /\ value_str = <<>>
    /\ value = NoneValue
    /\ buff = <<>>
    /\ document \in Documents
    /\ completions = <<>>
    /\ db \in CompleterDbs
    /\ fs = <<>>
    /\ listed = [printed |-> FALSE, rows |-> <<>>, catalog |-> {}]

NextComplete == CompleteStep

SpecComplete == InitComplete /\ [][NextComplete]_vars

-----------------------------------------------------------------------------
(* The csv module as _cmd_export and _cmd_import use it: the default       *)
(* dialect (delimiter ',', quotechar '"', doubled quotes, "\r\n" after     *)
(* each row, QUOTE_MINIMAL), files opened with newline="".                 *)

\* str(n) of an int
RECURSIVE NatToStr(_)
NatToStr(n) == IF n < 10 THEN <<Digits[n + 1]>> ELSE Append(NatToStr(n \div 10), Digits[(n % 10) + 1])
IntToStr(n) == IF n < 0 THEN <<"-">> \o NatToStr(-n) ELSE NatToStr(n)

\* csv.writer, a field's text: None is the empty string, anything else str(field)
FieldText(v) ==
    CASE v.type = "NoneType" -> <<>>
      [] v.type = "int" -> IntToStr(v.i)
      [] v.type = "str" -> v.s

\* csv.writer, QUOTE_MINIMAL: a field is quoted when it holds the delimiter,
\* the quote character or a character of the line terminator
CsvSpecial == {",", "\"", "\r", "\n"}

RECURSIVE DoubleQuotes(_)
DoubleQuotes(s) ==
    IF s = <<>> THEN <<>>
    ELSE (IF Head(s) = "\"" THEN <<"\"", "\"">> ELSE <<Head(s)>>) \o DoubleQuotes(Tail(s))

CsvField(s) ==
    IF \E i \in 1..Len(s) : s[i] \in CsvSpecial
    THEN <<"\"">> \o DoubleQuotes(s) \o <<"\"">>
    ELSE s

\* writer.writerow(fields): a row of one empty field is written as ""
CsvRow(fields) ==
    (IF Len(fields) = 1 /\ fields[1] = <<>>
     THEN <<"\"", "\"">>
     ELSE Join([i \in 1..Len(fields) |-> CsvField(fields[i])], <<",">>))
    \o <<"\r", "\n">>

\* writer.writerow(headers); writer.writerows(rows)
RECURSIVE CsvWrite(_)
CsvWrite(rows) == IF rows = <<>> THEN <<>> ELSE CsvRow(Head(rows)) \o CsvWrite(Tail(rows))

(***************************************************************************)
(* csv.reader over the file, read to its end: the parser of _csv.c.  st is *)
(* its state: "start_record", "start_field", "in_field", "in_quoted",      *)
(* "quote_in_quoted", "eat_crnl", or "error" (_csv.Error was raised).  The *)
(* file hands it one line at a time, a line ending after "\n" or after a   *)
(* "\r" with no "\n" behind it, and the end of a line ends the record      *)
(* unless a quoted field is open.  The result is [ok, rows].               *)
(***************************************************************************)
CsvChar(p, c) ==
    LET save == [p EXCEPT !.fields = Append(@, p.field), !.field = <<>>]
        add == [p EXCEPT !.field = Append(@, c)]
        st == IF p.st = "start_record" /\ c \notin {"\r", "\n"} THEN "start_field" ELSE p.st
    IN CASE st = "start_record" -> [p EXCEPT !.st = "eat_crnl"]
         [] st = "start_field" ->
              IF c \in {"\r", "\n"} THEN [save EXCEPT !.st = "eat_crnl"]
              ELSE IF c = "\"" THEN [p EXCEPT !.st = "in_quoted"]
              ELSE IF c = "," THEN [save EXCEPT !.st = "start_field"]
              ELSE [add EXCEPT !.st = "in_field"]
         [] st = "in_field" ->
              IF c \in {"\r", "\n"} THEN [save EXCEPT !.st = "eat_crnl"]
              ELSE IF c = "," THEN [save EXCEPT !.st = "start_field"]
              ELSE add
         [] st = "in_quoted" ->
              IF c = "\"" THEN [p EXCEPT !.st = "quote_in_quoted"] ELSE add
         [] st = "quote_in_quoted" ->
              IF c = "\"" THEN [add EXCEPT !.st = "in_quoted"]
              ELSE IF c = "," THEN [save EXCEPT !.st = "start_field"]
              ELSE IF c \in {"\r", "\n"} THEN [save EXCEPT !.st = "eat_crnl"]
              ELSE [add EXCEPT !.st = "in_field"]
         [] st = "eat_crnl" ->
              IF c \in {"\r", "\n"} THEN p ELSE [p EXCEPT !.st = "error"]
         [] OTHER -> p

\* the end of a line: the record is complete unless a quoted field is open
CsvEol(p) ==
    LET save == [p EXCEPT !.fields = Append(@, p.field), !.field = <<>>]
        done == IF p.st \in {"start_field", "in_field", "quote_in_quoted"}
                THEN [save EXCEPT !.st = "start_record"]
                ELSE IF p.st = "eat_crnl" THEN [p EXCEPT !.st = "start_record"]
                ELSE p
    IN IF done.st = "start_record"
       THEN [done EXCEPT !.rows = Append(@, done.fields), !.fields = <<>>]
       ELSE done

RECURSIVE CsvFrom(_, _)
CsvFrom(s, p) ==
    IF p.st = "error" THEN [ok |-> FALSE, rows |-> p.rows]
    ELSE IF s = <<>> THEN
        \* the end of the file inside a record: what was read is its last field
        IF p.field # <<>> \/ p.st = "in_quoted"
        THEN [ok |-> TRUE, rows |-> Append(p.rows, Append(p.fields, p.field))]
        ELSE [ok |-> TRUE, rows |-> p.rows]
    ELSE LET c == Head(s)
             q == CsvChar(p, c)
             eol == c = "\n" \/ (c = "\r" /\ (Len(s) = 1 \/ s[2] # "\n")) \/ Len(s) = 1
         IN CsvFrom(Tail(s), IF eol /\ q.st # "error" THEN CsvEol(q) ELSE q)

CsvRead(content) ==
    CsvFrom(content, [st |-> "start_record", field |-> <<>>, fields |-> <<>>, rows |-> <<>>])

-----------------------------------------------------------------------------
(* The database and the files, as the handlers change them.  A database is *)
(* the sequence of its tables and views in the order of sqlite_master,     *)
(* each [name, kind, cols, rows]; a name is matched in any letter case.    *)

Found(database, name) == {i \in 1..Len(database) : Lower(database[i].name) = Lower(name)}
HasTable(database, name) == Found(database, name) # {}
TableOf(database, name) == database[CHOOSE i \in Found(database, name) : TRUE]

\* The order of the characters of a name (BINARY collation).
CharOrder == Digits \o UpperCase \o <<"_">> \o LowerCase

RECURSIVE StrLess(_, _)
StrLess(a, b) ==
    IF b = <<>> THEN FALSE
    ELSE IF a = <<>> THEN TRUE
    ELSE IF a[1] = b[1] THEN StrLess(Tail(a), Tail(b))
    ELSE IndexOf(a[1], CharOrder) < IndexOf(b[1], CharOrder)

\* ORDER BY type, name
ListedBefore(x, y) ==
    IF x.kind # y.kind THEN x.kind = "table" ELSE StrLess(x.name, y.name)

\* The schema as .tables sees it: the kind and the name of every entry.
Catalog(database) == {<<database[i].kind, database[i].name>> : i \in 1..Len(database)}

\* A faulty TablesRows: each table is listed with the number of its rows.
TablesRowsWithCounts(database) ==
    LET n == Len(database)
        rank(i) == 1 + Cardinality({j \in 1..n : ListedBefore(database[j], database[i])})
    IN [r \in 1..n |->
            LET t == database[CHOOSE i \in 1..n : rank(i) = r]
            IN <<t.kind, t.name \o <<" ">> \o IntToStr(Len(t.rows))>>]

\* _cmd_tables: SELECT type, name FROM sqlite_master ... ORDER BY type, name
TablesRows(database) ==
    LET n == Len(database)
        rank(i) == 1 + Cardinality({j \in 1..n : ListedBefore(database[j], database[i])})
    IN [r \in 1..n |->
            LET t == database[CHOOSE i \in 1..n : rank(i) = r]
            IN <<t.kind, t.name>>]

\* _cmd_export: SELECT * FROM "table"; the headers, then the rows, written
\* to the file.  Nothing is written when the SELECT fails.
Export(database, files, table, path) ==
    IF ~HasTable(database, table) THEN [ok |-> FALSE, fs |-> files, n |-> 0]
    ELSE LET t == TableOf(database, table)
             texts == [i \in 1..Len(t.rows) |->
                          [j \in 1..Len(t.rows[i]) |-> FieldText(t.rows[i][j])]]
         IN [ok |-> TRUE,
             fs |-> DictSet(files, path, CsvWrite(<<t.cols>> \o texts)),
             n |-> Len(t.rows)]

\* CREATE TABLE IF NOT EXISTS "table" ("h" TEXT, ...): whether the engine
\* rejects it: no column, a header that closes the quotes, or for a new
\* table the same column name twice
CreateFails(database, table, headers) ==
    \/ headers = <<>>
    \/ \E i \in 1..Len(headers) : IsIn("\"", headers[i])
    \/ /\ ~HasTable(database, table)
       /\ \E i, j \in 1..Len(headers) : i < j /\ Lower(headers[i]) = Lower(headers[j])

\* INSERT INTO "table" VALUES (?, ...) for the records in turn, up to the
\* first one the engine rejects
RECURSIVE InsertRows(_, _, _)
InsertRows(t, width, records) ==
    IF records = <<>> THEN [ok |-> TRUE, t |-> t]
    ELSE IF t.kind # "table" \/ Len(t.cols) # width \/ Len(Head(records)) # width
    THEN [ok |-> FALSE, t |-> t]
    ELSE InsertRows([t EXCEPT !.rows = Append(@, [j \in 1..width |-> StrValue(Head(records)[j])])],
                    width, Tail(records))

\* _cmd_import, the try block: the first record names the columns, the
\* table is created if there is none of that name, the other records are
\* inserted.  An exception ends it where it is; n is the rows inserted.
Import(database, files, path, table) ==
    LET read == CsvRead(files[path]) IN
    IF read.rows = <<>> THEN [ok |-> FALSE, db |-> database, n |-> 0]
    ELSE LET headers == read.rows[1] IN
         IF CreateFails(database, table, headers) THEN [ok |-> FALSE, db |-> database, n |-> 0]
         ELSE LET created == IF HasTable(database, table) THEN database
                             ELSE Append(database, [name |-> table, kind |-> "table",
                                                    cols |-> headers, rows |-> <<>>])
                  at == CHOOSE i \in Found(created, table) : TRUE
                  ins == InsertRows(created[at], Len(headers), Tail(read.rows))
              IN [ok |-> ins.ok /\ read.ok,
                  db |-> [created EXCEPT ![at] = ins.t],
                  n |-> Len(ins.t.rows) - Len(created[at].rows)]

\* The SQL statements typed in SpecData, and what the engine does with each:
\* [db, eng], the database after it and the answer _execute_sql gets.
CreateV == <<"C","R","E","A","T","E"," ","T","A","B","L","E"," ","v","(","a",")",";">>
DropT == <<"D","R","O","P"," ","T","A","B","L","E"," ","t",";">>
InsertT == <<"I","N","S","E","R","T"," ","I","N","T","O"," ","t"," ","V","A","L","U","E","S"," ","(","1",")",";">>
SqlStatements == {CreateV, DropT, InsertT}

Engine(database, sql) ==
    CASE sql = CreateV ->
            IF HasTable(database, <<"v">>) THEN [db |-> database, eng |-> "error"]
            ELSE [db |-> Append(database, [name |-> <<"v">>, kind |-> "table",
                                           cols |-> << <<"a">> >>, rows |-> <<>>]),
                  eng |-> "empty"]
      [] sql = DropT ->
            IF HasTable(database, <<"t">>) /\ TableOf(database, <<"t">>).kind = "table"
            THEN [db |-> SelectSeq(database, LAMBDA t : Lower(t.name) # <<"t">>),
                  eng |-> "empty"]
            ELSE [db |-> database, eng |-> "error"]
      [] sql = InsertT ->
            IF HasTable(database, <<"t">>) /\ TableOf(database, <<"t">>).kind = "table"
               /\ Len(TableOf(database, <<"t">>).cols) = 1
            THEN [db |-> [database EXCEPT ![CHOOSE i \in Found(database, <<"t">>) : TRUE].rows =
                                               Append(@, <<IntValue(1)>>)],
                  eng |-> "empty"]
            ELSE [db |-> database, eng |-> "error"]

\* The databases SpecData starts from.
Tbl(name, kind, cols, rows) == [name |-> name, kind |-> kind, cols |-> cols, rows |-> rows]
DataDbs == {
    <<>>,
    << Tbl(<<"t">>, "table", << <<"a">> >>, <<>>) >>,
    << Tbl(<<"t">>, "table", << <<"a">> >>, << <<NoneValue>>, <<StrValue(<<>>)>> >>) >>,
    << Tbl(<<"t">>, "table", << <<"a">>, <<"B">> >>,
           << <<IntValue(-12), NoneValue>>, <<StrValue(<<"a",",","b">>), StrValue(<<"q","\"","r">>)>> >>) >>,
    << Tbl(<<"t">>, "table", << <<"a">> >>, << <<StrValue(<<"x","\n","y">>)>>, <<StrValue(<<"\r">>)>> >>) >>,
    << Tbl(<<"t">>, "table", << <<"a","\"","b">> >>, << <<IntValue(1)>> >>) >>,
    << Tbl(<<"u">>, "table", << <<"a">>, <<"b">> >>, <<>>),
       Tbl(<<"t">>, "table", << <<"a">> >>, << <<IntValue(7)>> >>) >>,
    << Tbl(<<"u">>, "view", << <<"a">> >>, << <<StrValue(<<"\"">>)>> >>),
       Tbl(<<"T">>, "table", << <<"a">> >>, << <<StrValue(<<"\"">>)>>, <<StrValue(<<",">>)>> >>) >> }

\* The table names and the paths typed in SpecData.
DataTables == { <<"t">>, <<"u">>, <<"w">> }
ExportPath == <<"f",".","c","s","v">>
ImportPaths == { <<"f",".","c","s","v">>, <<"g",".","c","s","v">> }

ExportText(table, path) == Join(<< <<".","e","x","p","o","r","t">>, table, path >>, <<" ">>)
ImportText(path, table) == Join(<< <<".","i","m","p","o","r","t">>, path, table >>, <<" ">>)

\* .export TABLE PATH at the prompt
DataExport ==
    /\ pc = "data"
    /\ Len(executed) < MaxCommands
    /\ \E table \in DataTables :
        LET r == Export(db, fs, table, ExportPath)
            s == Say(Emit(Self, "dot", ExportText(table, ExportPath)),
                     IF r.ok THEN "OK - filas exportadas" ELSE "Error: exception")
        IN Becomes(s) /\ out' = s.out /\ fs' = r.fs
    /\ UNCHANGED <<conn, pc, exit_code, text, last, lines, consumed, sql_buffer,
                   value_str, value, buff, document, completions, db, listed>>

\* .import PATH TABLE at the prompt
DataImport ==
    /\ pc = "data"
    /\ Len(executed) < MaxCommands
    /\ \E path \in ImportPaths, table \in DataTables :
        LET s0 == Emit(Self, "dot", ImportText(path, table)) IN
        IF path \notin DOMAIN fs
        THEN LET s == Say(s0, "Archivo no encontrado")
             IN Becomes(s) /\ out' = s.out /\ db' = db
        ELSE LET r == Import(db, fs, path, table)
                 s == Say(s0, IF r.ok THEN "OK - filas importadas" ELSE "Error: exception")
             IN Becomes(s) /\ out' = s.out /\ db' = r.db
    /\ UNCHANGED <<conn, pc, exit_code, text, last, lines, consumed, sql_buffer,
                   value_str, value, buff, document, completions, fs, listed>>

\* .tables at the prompt
DataTablesList ==
    /\ pc = "data"
    /\ Len(executed) < MaxCommands
    /\ LET rows == TablesRows(db)
           s == CmdTables(Emit(Self, "dot", <<".","t","a","b","l","e","s">>), <<>>,
                          IF rows # <<>> THEN "rows" ELSE "empty")
       IN /\ Becomes(s)
          /\ out' = s.out
          /\ listed' = [printed |-> TRUE, rows |-> rows,
                        catalog |-> Catalog(db)]
    /\ UNCHANGED <<conn, pc, exit_code, text, last, lines, consumed, sql_buffer,
                   value_str, value, buff, document, completions, db, fs>>

\* a SQL statement at the prompt
DataSql ==
    /\ pc = "data"
    /\ Len(executed) < MaxCommands
    /\ \E sql \in SqlStatements :
        LET r == Engine(db, sql)
            s == ExecuteSql(Emit(Self, "sql", sql), r.eng)
        IN Becomes(s) /\ out' = s.out /\ db' = r.db
    /\ UNCHANGED <<conn, pc, exit_code, text, last, lines, consumed, sql_buffer,
                   value_str, value, buff, document, completions, fs, listed>>

InitData ==
    /\ InitSession
    /\ pc = "data"
    /\ lines = <<>>
    /\ value_str = <<>>
    /\ value = NoneValue
    /\ buff = <<>>
    /\ document = [text |-> <<>>, cursor |-> 0]
    /\ completions = <<>>
    /\ db \in DataDbs
    /\ fs = <<>>
    /\ listed = [printed |-> FALSE, rows |-> <<>>, catalog |-> {}]

NextData == DataExport \/ DataImport \/ DataTablesList \/ DataSql

SpecData == InitData /\ [][NextData]_vars

-----------------------------------------------------------------------------
(* The properties of the statement accumulator of _cmd_read, under         *)
(* SpecRead.                                                               *)

SqlUnit(txt) == [kind |-> "sql", text |-> txt]
DotUnit(txt) == [kind |-> "dot", text |-> txt]

\* The kinds of line the accumulator tells apart, by the trimmed line.
IsBlankLine(line) == \A i \in 1..Len(line) : line[i] \in Whitespace
IsCommentLine(line) == ~IsBlankLine(line) /\ StartsWith(Strip(line), <<"-","-">>)
IsDotLine(line) == ~IsBlankLine(line) /\ Head(Strip(line)) = "."
IsSqlLine(line) == ~IsBlankLine(line) /\ ~IsCommentLine(line) /\ ~IsDotLine(line)
IsTerminated(line) == ~IsBlankLine(line) /\ Strip(line)[Len(Strip(line))] = ";"

\* A step of the script reader takes the next line of the file.
TakesLine == pc = "read" /\ lines # <<>> /\ consumed' = Append(consumed, Head(lines))

\* C1: in a script, a dot-command line that arrives while the SQL buffer
\* holds pending lines has the buffer run first, as one SQL unit (its lines
\* joined by newline, trimmed), and the trimmed dot-command line run right
\* after it as a unit of its own; the buffer is empty afterwards.
C1_DotCommandFlushesPending ==
    [][ (TakesLine /\ IsDotLine(Head(lines)) /\ sql_buffer # <<>>)
        => /\ executed' = executed \o << SqlUnit(Strip(Join(sql_buffer, <<"\n">>))),
                                         DotUnit(Strip(Head(lines))) >>
           /\ sql_buffer' = <<>> ]_vars

\* C1's case: the script "a", " .a " read, the two units run in that order.
C1_Witness ==
    /\ consumed = << <<"a">>, <<" ",".","a"," ">> >>
    /\ executed = << SqlUnit(<<"a">>), DotUnit(<<".","a">>) >>
    /\ sql_buffer = <<>>

\* The positions of the terminated lines of a script of SQL lines, and the
\* position after the last terminated line before position i.
TerminatedAt(script) == {i \in 1..Len(script) : IsTerminated(script[i])}
UnitStart(script, i) ==
    LET before == {j \in TerminatedAt(script) : j < i}
    IN IF before = {} THEN 1 ELSE 1 + CHOOSE j \in before : \A k \in before : k <= j
NthTerminated(script, n) ==
    CHOOSE t \in TerminatedAt(script) :
        Cardinality({j \in TerminatedAt(script) : j <= t}) = n

\* C2: while a script has fed only SQL lines (not blank, not comments, not
\* dot-commands), one unit has been run per line whose trimmed form ends
\* with ';': the original lines since the previous such line, joined by
\* newline and trimmed; the buffer holds the lines after the last one.
C2_UnitPerTerminatedLine ==
    (pc = "read" /\ \A i \in 1..Len(consumed) : IsSqlLine(consumed[i]))
    => /\ Len(executed) = Cardinality(TerminatedAt(consumed))
       /\ \A n \in 1..Len(executed) :
            LET t == NthTerminated(consumed, n)
            IN executed[n] =
                 SqlUnit(Strip(Join(SubSeq(consumed, UnitStart(consumed, t), t), <<"\n">>)))
       /\ sql_buffer = SubSeq(consumed, UnitStart(consumed, Len(consumed) + 1), Len(consumed))

\* C2's case: three SQL lines, the third terminated, run as one unit that
\* keeps the inner whitespace and the ';'.
C2_Witness ==
    /\ pc = "read"
    /\ consumed = << <<"a">>, <<" ","a">>, <<"a",";"," ">> >>
    /\ executed = << SqlUnit(<<"a","\n"," ","a","\n","a",";">>) >>
    /\ sql_buffer = <<>>

\* The SQL lines of a script after its last dot-command or terminated line:
\* what the buffer holds when the file ends.
IsBreak(line) == IsDotLine(line) \/ (IsSqlLine(line) /\ IsTerminated(line))
IsBufferedLine(line) == IsSqlLine(line)
Remainder(script) ==
    LET breaks == {i \in 1..Len(script) : IsBreak(script[i])}
        from == IF breaks = {} THEN 1 ELSE 1 + CHOOSE i \in breaks : \A k \in breaks : k <= i
    IN SelectSeq(SubSeq(script, from, Len(script)), IsBufferedLine)

\* C3: when .read has reached the end of the file, the SQL lines left in the
\* buffer, which end with no ';', have been run as the last unit, and the
\* completion message has been printed after the engine's answer.
C3_RemainderRunAtEof ==
    (pc # "read" /\ lines = <<>> /\ Remainder(consumed) # <<>>)
    => /\ executed # <<>>
       /\ executed[Len(executed)] = SqlUnit(Strip(Join(Remainder(consumed), <<"\n">>)))
       /\ \E i \in 2..Len(out) : out[i] = "OK - Ejecutado"

\* C3's case: a terminated statement, then a line with no ';' and the end
\* of the file.
C3_Witness ==
    /\ pc = "prompt"
    /\ lines = <<>>
    /\ consumed = << <<"a",";">>, <<" ","a">> >>
    /\ executed = << SqlUnit(<<"a",";">>), SqlUnit(<<"a">>) >>

\* C4: a blank line or a comment line of a script changes nothing: the
\* buffer, the units run, the session and the console are as before,
\* whether the buffer is empty or not.
C4_BlankAndCommentIgnored ==
    [][ (TakesLine /\ (IsBlankLine(Head(lines)) \/ IsCommentLine(Head(lines))))
        => /\ sql_buffer' = sql_buffer
           /\ executed' = executed
           /\ out' = <<>>
           /\ UNCHANGED <<running, timer_enabled, mode, parameters, conn, pc>> ]_vars

\* C4's case: a comment that ends with ';' and a blank line have passed
\* while the buffer held a line: the buffer still holds that one line.
C4_Witness ==
    /\ pc = "read"
    /\ consumed = << <<"a">>, <<" ","-","-","a">>, <<" ">> >>
    /\ sql_buffer = << <<"a">> >>
    /\ executed = <<>>

-----------------------------------------------------------------------------
(* The properties of the prompt loop and of the dot-commands, under Spec.  *)

\* A dot-command as its user reads it: the words between whitespace, the
\* first one the command's name in any letter case.
CommandOf(txt) == Lower(Split(txt)[1])
ArgsOf(txt) == Tail(Split(txt))

\* The names of the command table (spec section 4.5).
CommandNames == {
    <<".","t","a","b","l","e","s">>, <<".","s","c","h","e","m","a">>, <<".","r","e","a","d">>, <<".","d","u","m","p">>, <<".","m","o","d","e">>, <<".","i","m","p","o","r","t">>,
    <<".","e","x","p","o","r","t">>, <<".","c","o","l","u","m","n","s">>, <<".","i","n","d","e","x","e","s">>, <<".","d","e","s","c","r","i","b","e">>, <<".","c","o","u","n","t">>,
    <<".","s","a","m","p","l","e">>, <<".","t","i","m","e","r">>, <<".","c","h","a","n","g","e","s">>, <<".","p","a","r","a","m","e","t","e","r">>, <<".","p","a","r","a","m">>,
    <<".","l","o","a","d">>, <<".","q","u","i","t">>, <<".","e","x","i","t">>, <<".","h","e","l","p">> }

ModeSet == { <<"t","a","b","l","e">>, <<"c","s","v">>, <<"j","s","o","n">>, <<"l","i","n","e">> }

\* The prompt has returned a dot-command, which the next step dispatches.
DispatchesDot == pc = "dispatch" /\ text # <<>> /\ text[1] = "."

IsQuit(txt) == CommandOf(txt) \in { <<".","q","u","i","t">>, <<".","e","x","i","t">> }

\* C5: only .quit, .exit and the end of input end the loop: whenever the
\* process has left the loop, the last thing the prompt returned was the
\* end of input or a .quit/.exit command; and the exit code is never
\* other than 0.
C5_OnlyQuitOrEofEndsLoop ==
    /\ pc \in {"exited", "fatal"}
       => \/ last = "EOFError"
          \/ last = "text" /\ text # <<>> /\ text[1] = "." /\ IsQuit(text)
    /\ exit_code \in {-1, 0}

\* The user input errors of spec section 7 (c): an unknown command name, an
\* invalid mode name, a .timer argument other than on/off, an unrecognized
\* or under-supplied .parameter subcommand, a missing required argument, a
\* .sample count that is no number.
IsUserInputError(txt) ==
    LET cmd == CommandOf(txt)
        args == ArgsOf(txt)
        n == Len(args)
        sub == Lower(args[1])
    IN \/ cmd \notin CommandNames
       \/ cmd = <<".","m","o","d","e">> /\ n >= 1 /\ sub \notin ModeSet
       \/ cmd = <<".","t","i","m","e","r">> /\ n >= 1 /\ sub \notin { <<"o","n">>, <<"o","f","f">> }
       \/ cmd \in { <<".","p","a","r","a","m","e","t","e","r">>, <<".","p","a","r","a","m">> } /\ n >= 1
            /\ \/ sub \notin { <<"s","e","t">>, <<"u","n","s","e","t">>, <<"c","l","e","a","r">>, <<"l","i","s","t">> }
               \/ sub = <<"s","e","t">> /\ n < 3
               \/ sub = <<"u","n","s","e","t">> /\ n < 2
       \/ cmd \in { <<".","r","e","a","d">>, <<".","c","o","l","u","m","n","s">>, <<".","d","e","s","c","r","i","b","e">>, <<".","s","a","m","p","l","e">>, <<".","l","o","a","d">> } /\ n = 0
       \/ cmd \in { <<".","i","m","p","o","r","t">>, <<".","e","x","p","o","r","t">> } /\ n < 2
       \/ cmd = <<".","s","a","m","p","l","e">> /\ n >= 2 /\ ~AllDigits(args[2])

\* C6: a dot-command that is a user input error leaves the mode, the timer
\* flag, the bound parameters and the running flag as they were.
C6_InputErrorKeepsSession ==
    [][ (DispatchesDot /\ IsUserInputError(text))
        => UNCHANGED <<mode, timer_enabled, parameters, running>> ]_vars

\* C7: `.mode V` sets the mode to V in lower case when that is one of table,
\* csv, json, line; for any other V it leaves the mode and prints the
\* rejection; `.mode` alone leaves the mode.  The mode is always one of the
\* four.
C7_ModeSetIffValid ==
    /\ [](mode \in ModeSet)
    /\ [][ (DispatchesDot /\ CommandOf(text) = <<".","m","o","d","e">>)
           => LET args == ArgsOf(text)
              IN IF args # <<>> /\ Lower(args[1]) \in ModeSet
                 THEN mode' = Lower(args[1])
                 ELSE /\ mode' = mode
                      /\ args # <<>> => out' = <<"Modo invalido">> ]_vars

\* C7's case: `.Mode Json` typed while the mode was another one.
C7_Witness ==
    /\ pc # "dispatch" /\ text = <<".","M","o","d","e"," ","J","s","o","n">>
    /\ mode = <<"j","s","o","n">>
    /\ out = <<"Modo cambiado">>

\* The NAME of `.parameter set NAME ...` or `.parameter unset NAME`, without
\* its leading sigils.
RECURSIVE Unsigiled(_)
Unsigiled(name) ==
    IF name # <<>> /\ name[1] \in {":", "@"} THEN Unsigiled(Tail(name)) ELSE name

\* C8: `.parameter set NAME VALUE` binds NAME, without its sigil, to the
\* parsed VALUE and leaves the other names; `.parameter unset NAME` removes
\* NAME and leaves the other names; `.parameter clear` empties the mapping;
\* `.parameter` and `.parameter list` leave it.  `set x 5` binds x to the
\* integer 5.
C8_ParameterLifecycle ==
    [][ (DispatchesDot /\ CommandOf(text) \in { <<".","p","a","r","a","m","e","t","e","r">>, <<".","p","a","r","a","m">> })
        => LET args == Tail(Parts(text))
               n == Len(args)
               sub == Lower(args[1])
               name == Unsigiled(args[2])
               others == DOMAIN parameters \ {name}
           IN /\ (n >= 3 /\ sub = <<"s","e","t">>) =>
                    /\ DOMAIN parameters' = DOMAIN parameters \cup {name}
                    /\ parameters'[name] =
                         ParseParameterValue(Join(SubSeq(args, 3, n), <<" ">>))
                    /\ \A o \in others : parameters'[o] = parameters[o]
                    /\ (name = <<"x">> /\ SubSeq(args, 3, n) = << <<"5">> >>)
                          => parameters'[name] = [type |-> "int", i |-> 5, e |-> 0, s |-> <<>>]
              /\ (n >= 2 /\ sub = <<"u","n","s","e","t">>) =>
                    /\ DOMAIN parameters' = others
                    /\ \A o \in others : parameters'[o] = parameters[o]
              /\ (n >= 1 /\ sub = <<"c","l","e","a","r">>) => DOMAIN parameters' = {}
              /\ (n = 0 \/ (n >= 1 /\ sub = <<"l","i","s","t">>)) => parameters' = parameters ]_vars

\* C8's case: x was bound to a string and is now bound to the integer 5,
\* and y is still bound.
C8_Witness ==
    /\ pc # "dispatch" /\ text = <<".","p","a","r","a","m","e","t","e","r"," ","s","e","t"," ","x"," ","5">>
    /\ DOMAIN parameters = { <<"x">>, <<"y">> }
    /\ parameters[<<"x">>].type = "int" /\ parameters[<<"x">>].i = 5
    /\ parameters[<<"y">>] = NoneValue

\* C10: .quit and .exit, in any letter case, set the running flag false and
\* the loop ends as it does at the end of input: the connection is closed,
\* the exit code is 0, and nothing more is read.
C10_QuitEndsLoop ==
    /\ [][ (DispatchesDot /\ IsQuit(text)) => running' = FALSE ]_vars
    /\ [][ ((pc = "dispatch" /\ running' = FALSE) \/ (pc = "prompt" /\ last' = "EOFError"))
           => (pc' = "exited" /\ conn' = "closed" /\ exit_code' = 0
               /\ out'[Len(out')] = "Bye!") ]_vars
    /\ [](pc = "exited" => ~ENABLED Next)

\* C10's case: `.EXIT` was typed.
C10_Witness ==
    /\ pc # "dispatch" /\ text = <<".","E","X","I","T">>
    /\ ~running
    /\ pc = "exited"
    /\ conn = "closed"
    /\ exit_code = 0

-----------------------------------------------------------------------------
(* The properties of the value parser, under SpecParse.                    *)

\* A string wrapped in matching quotes: an opening quote, the inner string,
\* the same quote closing it.
IsQuoted(str) == Len(str) >= 2 /\ str[1] \in {"\"", "'"} /\ str[Len(str)] = str[1]
Inner(str) == SubSeq(str, 2, Len(str) - 1)

\* The value the resolution order of spec section 4.1 gives: the first rule
\* that matches decides.
Resolved(str) ==
    CASE Upper(str) = <<"N","U","L","L">> -> [type |-> "NoneType", i |-> 0, e |-> 0, s |-> <<>>]
      [] Upper(str) = <<"T","R","U","E">> -> [type |-> "bool", i |-> 1, e |-> 0, s |-> <<>>]
      [] Upper(str) = <<"F","A","L","S","E">> -> [type |-> "bool", i |-> 0, e |-> 0, s |-> <<>>]
      [] OTHER ->
            IF IntOk(str) THEN [type |-> "int", i |-> IntOf(str), e |-> 0, s |-> <<>>]
            ELSE IF FloatOk(str) THEN [FloatOf(str) EXCEPT !.type = "float"]
            ELSE IF IsQuoted(str) THEN [type |-> "str", i |-> 0, e |-> 0, s |-> Inner(str)]
            ELSE [type |-> "str", i |-> 0, e |-> 0, s |-> str]

\* C9: the parser's result is the one the resolution order gives: null,
\* boolean, integer, float, the inner string of a string wrapped in matching
\* quotes, and for anything else the string unchanged.
C9_FirstMatchingRule ==
    pc = "parsed" => value = Resolved(value_str)

\* C9, for every string but a lone quote character: there the parser's
\* result is the one the resolution order gives.
C9_FirstMatchingRuleButLoneQuote ==
    (pc = "parsed" /\ value_str \notin { <<"\"">>, <<"'">> }) => value = Resolved(value_str)

\* C9's cases: a quoted number is the string of its digits, not a number.
C9_Witness ==
    /\ pc = "parsed"
    /\ value_str = <<"\"","1","2","3","\"">>
    /\ value = [type |-> "str", i |-> 0, e |-> 0, s |-> <<"1","2","3">>]

-----------------------------------------------------------------------------
(* The interactive path against the accumulator, under SpecEdit.           *)

\* The units the Statement Accumulator runs when the lines of txt are fed
\* to it as a script.
AccumulatorUnits(txt, eng) ==
    ReadLines([Self EXCEPT !.executed = <<>>], <<>>, SplitLines(txt), eng).executed

IsMultiLine(txt) == \E i \in 1..Len(txt) : txt[i] = "\n"

\* C11: a multi-line text sent from the prompt has run, when its dispatch is
\* over, the same units in the same order as the accumulator runs when the
\* lines of the text are fed to it as a script.
C11_PromptRunsAccumulatorUnits ==
    (pc = "prompt" /\ last = "text" /\ IsMultiLine(text))
    => \E eng \in EngineResults : executed = AccumulatorUnits(text, eng)

\* C11, where the two paths agree: a statement typed over two lines, the
\* second ending with ';', is one unit on both.
C11_AgreesOnOneStatement ==
    /\ pc = "prompt" /\ last = "text"
    /\ text = <<"a","\n","a",";">>
    /\ executed = << SqlUnit(<<"a","\n","a",";">>) >>
    /\ executed = AccumulatorUnits(text, "rows")

-----------------------------------------------------------------------------
(* The properties of the completer, under SpecComplete.                    *)

InSeq(x, seq) == \E i \in 1..Len(seq) : seq[i] = x

\* The dot-command names that have the lower-cased input as a prefix, in
\* the order of the name list.
DotCandidates(input) ==
    SelectSeq(DotCommands,
              LAMBDA name : Len(name) >= Len(input)
                            /\ \A i \in 1..Len(input) : name[i] = LowerChar(input[i]))

\* C12: when the whole input starts with '.', the candidates are exactly the
\* dot-command names with the lower-cased input as a prefix, and none of
\* them is a SQL keyword, a table or view name or a column name.
C12_DotContextOnlyDotCommands ==
    (pc = "completed" /\ document.text # <<>> /\ document.text[1] = ".")
    => /\ completions = DotCandidates(document.text)
       /\ \A i \in 1..Len(completions) :
            /\ ~InSeq(completions[i], Keywords)
            /\ \A t \in 1..Len(db) :
                 /\ completions[i] # db[t].name
                 /\ ~InSeq(completions[i], db[t].cols)

\* C12's case: the input `.tab`, the cursor at its end after the word `tab`,
\* in a database with a table `tab`: `.tables` alone is offered.
C12_Witness ==
    /\ pc = "completed"
    /\ document = [text |-> <<".","t","a","b">>, cursor |-> 4]
    /\ Len(db) = 2
    /\ completions = << <<".","t","a","b","l","e","s">> >>

-----------------------------------------------------------------------------
(* Claims about .export, .import and .tables, checked under SpecData.      *)

IsTable(database, name) == HasTable(database, name) /\ TableOf(database, name).kind = "table"
LastUnit == executed[Len(executed)]
Runs(unit) == executed' = Append(executed, unit)

\* C13: for every existing table T with n rows, `.export T F` followed at
\* once by `.import F T2`, T2 the name of no table, leaves T2 with exactly n
\* rows and leaves the rows of T as they were.
C13_ExportImportRoundTrip ==
    [][\A T \in DataTables, T2 \in DataTables :
          ( /\ executed # <<>>
            /\ LastUnit = [kind |-> "dot", text |-> ExportText(T, ExportPath)]
            /\ IsTable(db, T)
            /\ ~HasTable(db, T2)
            /\ Runs([kind |-> "dot", text |-> ImportText(ExportPath, T2)]) )
          => /\ HasTable(db', T2)
             /\ Len(TableOf(db', T2).rows) = Len(TableOf(db, T).rows)
             /\ TableOf(db', T).rows = TableOf(db, T).rows]_vars

\* The columns of the table have names without a double quote.
PlainColumns(database, name) ==
    \A i \in 1..Len(TableOf(database, name).cols) : ~IsIn("\"", TableOf(database, name).cols[i])

\* C13, for the tables whose column names hold no double quote: the round
\* trip gives T2 the n rows of T and leaves T alone.
C13_RoundTripOfPlainColumns ==
    [][\A T \in DataTables, T2 \in DataTables :
          ( /\ executed # <<>>
            /\ LastUnit = [kind |-> "dot", text |-> ExportText(T, ExportPath)]
            /\ IsTable(db, T)
            /\ PlainColumns(db, T)
            /\ ~HasTable(db, T2)
            /\ Runs([kind |-> "dot", text |-> ImportText(ExportPath, T2)]) )
          => /\ HasTable(db', T2)
             /\ Len(TableOf(db', T2).rows) = Len(TableOf(db, T).rows)
             /\ TableOf(db', T).rows = TableOf(db, T).rows]_vars

\* C14: `.tables` changes neither the schema nor the mode, the timer flag,
\* the parameters or the running flag, and when the schema is the one the
\* last `.tables` listed it lists the same rows again.
C14_TablesIdempotent ==
    [][Runs([kind |-> "dot", text |-> <<".","t","a","b","l","e","s">>])
          => /\ db' = db
             /\ UNCHANGED <<mode, timer_enabled, parameters, running>>
             /\ (listed.printed /\ listed.catalog = Catalog(db)) => listed'.rows = listed.rows]_vars

\* C14 witness: `.tables` has run twice over the schema of one table, an
\* INSERT in between, and listed that table alone.
C14_Witness ==
    /\ Len(executed) = 3
    /\ executed[1].text = <<".","t","a","b","l","e","s">>
    /\ executed[2].text = InsertT
    /\ executed[3].text = <<".","t","a","b","l","e","s">>
    /\ listed.rows = << <<"table", <<"t">>>> >>
    /\ Len(TableOf(db, <<"t">>).rows) = 1

-----------------------------------------------------------------------------
(* Claims about a whole script, checked under SpecRead.                    *)

\* The script being read, the lines taken and the lines still to take.
Script == consumed \o lines

\* The lines of a script that are neither blank nor comments, trimmed.
Significant(script) ==
    LET kept == SelectSeq(script, LAMBDA l : ~IsBlankLine(l) /\ ~IsCommentLine(l))
    IN [i \in 1..Len(kept) |-> Strip(kept[i])]

\* The lines of the units run, in the order run, trimmed.
RECURSIVE UnitLines(_)
UnitLines(units) ==
    IF units = <<>> THEN <<>>
    ELSE LET ls == SplitLines(Head(units).text)
         IN [i \in 1..Len(ls) |-> Strip(ls[i])] \o UnitLines(Tail(units))

\* A dot-command unit is one line starting with '.'; an SQL unit is not
\* empty and none of its lines starts with '.'.
WellFormedUnit(u) ==
    IF u.kind = "dot"
    THEN ~IsIn("\n", u.text) /\ u.text # <<>> /\ u.text[1] = "."
    ELSE /\ u.text # <<>>
         /\ \A i \in 1..Len(SplitLines(u.text)) : ~IsDotLine(SplitLines(u.text)[i])

\* Every line of the script that counts is in exactly one unit run, the
\* units in the order of the lines, each unit well formed.
Conserved ==
    /\ UnitLines(executed) = Significant(Script)
    /\ \A n \in 1..Len(executed) : WellFormedUnit(executed[n])

\* _execute_sql has reported a failure of the engine.
EngineFailed == IsIn("Error: sqlite3.Error", out)
ReportsCompletion == IsIn("OK - Ejecutado", out)

\* C15: when an SQL unit of a script has failed in the engine, the script
\* is still run to its end: every unit of it is run once, in order, and
\* the completion is reported.
C15_EngineErrorsContained ==
    (pc # "read" /\ EngineFailed) => (Conserved /\ ReportsCompletion)

\* C15, the failing statement alone: a step that runs the SQL unit ended by
\* a terminated line, the engine failing, adds the error message to the
\* output, changes no session attribute and goes on to the next line.
C15_FailureChangesNoAttribute ==
    [][(TakesLine /\ IsSqlLine(Head(lines)) /\ IsTerminated(Head(lines))
          /\ out' = Append(out, "Error: sqlite3.Error"))
       => /\ UNCHANGED <<mode, timer_enabled, parameters, running>>
          /\ pc' = "read"
          /\ lines' = Tail(lines)
          /\ Len(executed') = Len(executed) + 1]_vars

\* C16: once the running flag is false it stays false and no further unit
\* is run.
C16_QuitIsTerminal ==
    [][~running => (~running' /\ executed' = executed)]_vars

\* C16, the flag alone: once false, the running flag stays false.
C16_RunningStaysFalse ==
    [][~running => ~running']_vars

\* C17: when the reading of a script has ended, each of its lines that is
\* neither blank nor a comment is in exactly one unit run, the units are in
\* the order of the lines, and every unit is well formed.
C17_LineConservation ==
    pc # "read" => Conserved

\* C17, while the script is read without an exception: the units run and
\* the buffer together hold the lines taken so far, once each, in order.
C17_ConservedWhileReading ==
    pc = "read" =>
        /\ UnitLines(executed) \o [i \in 1..Len(sql_buffer) |-> Strip(sql_buffer[i])]
              = Significant(consumed)
        /\ \A n \in 1..Len(executed) : WellFormedUnit(executed[n])

=============================================================================
